---- MODULE Spec2Model ----
(***************************************************************************)
(* Expression-graph layer of the GEE tool server: the composition handlers *)
(* of ee_mcp/handlers.py over graphs that are deserialized from, and       *)
(* serialized to, the flat "values table + result pointer" wire documents. *)
(*                                                                         *)
(* A graph node and a wire encoding are both records                       *)
(*     [k, f, n, a]                                                        *)
(* k  kind: "num" / "str" constants, "arg" argument reference, "inv"       *)
(*    function invocation, "fdef" function definition, "arr" array,        *)
(*    "ref" value reference (wire only), "err" / "none" (no node);         *)
(* f  function name, string constant, or argument name;                    *)
(* n  numeric constant, or the referenced id of a "ref" / wire "fdef";     *)
(* a  the arguments, a sequence of [name, v], listed in key order.         *)
(***************************************************************************)
EXTENDS Integers, Sequences, FiniteSets, TLC

\* ------------------------------------------------------------------ bounds
\* longest list of documents passed to a list-folding handler
MaxList == 3
\* number of documents a client keeps from earlier calls
MaxHeld == 2
\* largest graph (in nodes) of a document the client keeps for later calls
MaxNodes == 6

\* ------------------------------------------------------------------ nodes
Num(x) == [k |-> "num", f |-> "", n |-> x, a |-> <<>>]
Str(s) == [k |-> "str", f |-> s, n |-> 0, a |-> <<>>]
ArgRef(v) == [k |-> "arg", f |-> v, n |-> 0, a |-> <<>>]
Arg(name, v) == [name |-> name, v |-> v]
Inv(fn, args) == [k |-> "inv", f |-> fn, n |-> 0, a |-> args]
FDef(v, body) == [k |-> "fdef", f |-> v, n |-> 0, a |-> <<Arg("body", body)>>]
Arr(elems) == [k |-> "arr", f |-> "", n |-> 0, a |-> [i \in DOMAIN elems |-> Arg("", elems[i])]]
Ref(id) == [k |-> "ref", f |-> "", n |-> id, a |-> <<>>]
Err(kind) == [k |-> "err", f |-> kind, n |-> 0, a |-> <<>>]
NoNode == [k |-> "none", f |-> "", n |-> 0, a |-> <<>>]

IsErr(x) == x.k = "err"

RECURSIVE Size(_)
RECURSIVE SizeArgs(_, _)
\* number of nodes of the tree below (and including) X
Size(X) == 1 + SizeArgs(X.a, 1)
SizeArgs(args, i) == IF i > Len(args) THEN 0 ELSE Size(args[i].v) + SizeArgs(args, i + 1)

RECURSIVE Subs(_)
\* the structurally distinct subgraphs of X, X included
Subs(X) == {X} \cup UNION {Subs(X.a[i].v) : i \in DOMAIN X.a}

\* compound values get table entries; primitive constants and argument
\* references are always written in place
Compound(X) == X.k \in {"inv", "fdef", "arr"}

\* position of x in the sequence s (0 when absent)
IndexOf(x, s) == IF \E i \in DOMAIN s : s[i] = x THEN CHOOSE i \in DOMAIN s : s[i] = x ELSE 0

\* ------------------------------------------------------------- type tags
ImageFunctions ==
    {"Image.load", "Image.constant", "Image.updateMask", "Image.lt", "Image.gt",
     "Image.lte", "Image.unmask", "Image.or", "Image.and", "ImageCollection.mosaic"}
CollectionFunctions ==
    {"Collection.loadTable", "Collection.map", "Collection.merge", "Collection.union",
     "Collection.filter", "Collection"}
OtherFunctions ==
    {"ImageCollection.load", "Feature", "Feature.geometry", "Element.copyProperties",
     "Geometry.intersection", "Geometry.simplify", "Collection.geometry",
     "Collection.first", "Element.getNumber", "Number.gt", "If", "ErrorMargin",
     "Filter.equals"}
KnownFunctions == ImageFunctions \cup CollectionFunctions \cup OtherFunctions

\* the type tag of a node: what the value it denotes is
TypeOf(X) ==
    CASE X.k = "inv" /\ X.f \in ImageFunctions -> "Image"
      [] X.k = "inv" /\ X.f \in CollectionFunctions -> "FeatureCollection"
      [] X.k = "inv" /\ X.f = "Feature" -> "Feature"
      [] X.k = "inv" /\ X.f = "Element.copyProperties" -> "Feature"
      [] X.k = "inv" /\ X.f \in {"Feature.geometry", "Geometry.intersection",
                                 "Geometry.simplify", "Collection.geometry"} -> "Geometry"
      [] X.k = "inv" /\ X.f \in {"Element.getNumber", "Number.gt"} -> "Number"
      [] X.k = "inv" /\ X.f = "Filter.equals" -> "Filter"
      [] X.k = "inv" /\ X.f = "ErrorMargin" -> "ErrorMargin"
      [] X.k = "num" -> "Number"
      [] OTHER -> "Object"

\* ------------------------------------------------------------ serializer
\* a document: the result pointer (NoResult when the key is absent) and the
\* values table, a function from ids to encodings
NoResult == -1
NoDoc == [result |-> NoResult, values |-> [i \in {} |-> NoNode]]

\* the argument positions of the nodes of S
ArgSlots(S) == UNION {{<<P, i>> : i \in DOMAIN P.a} : P \in S}

\* number of places that use X: once as the result if it is the root, and
\* once per argument position (of a distinct node) that holds it
UseCount(X, G, slots) ==
    Cardinality({sl \in slots : sl[1].a[sl[2]].v = X}) + (IF X = G THEN 1 ELSE 0)

\* mutant: shared subgraphs are not detected, each occurrence is written out
Lifted_NoSharing(G) ==
    {X \in Subs(G) :
        /\ Compound(X)
        /\ \/ X = G
           \/ \E P \in Subs(G) : P.k = "fdef" /\ P.a[1].v = X}

\* the subgraphs that get a table entry of their own: the root, the body of
\* every function definition, and every compound value used more than once
Lifted(G) ==
    LET S == Subs(G)
        slots == ArgSlots(S)
        bodies == {P.a[1].v : P \in {Q \in S : Q.k = "fdef"}}
    IN  {X \in S :
            /\ Compound(X)
            /\ \/ X = G
               \/ X \in bodies
               \/ UseCount(X, G, slots) > 1}

RECURSIVE Visit(_, _, _)
RECURSIVE VisitArgs(_, _, _, _)
\* mutant: a lifted node gets its id after its dependencies (post-order)
Visit_PostOrder(X, ord, lifted) ==
    LET below == VisitArgs(X.a, 1, ord, lifted)
    IN  IF X \in lifted /\ IndexOf(X, below) = 0 THEN Append(below, X) ELSE below

\* depth-first walk from the root; a lifted node is appended to ord the first
\* time it is met and its content is walked at once
Visit(X, ord, lifted) ==
    IF X \in lifted
    THEN IF IndexOf(X, ord) # 0 THEN ord
         ELSE VisitArgs(X.a, 1, Append(ord, X), lifted)
    ELSE VisitArgs(X.a, 1, ord, lifted)
VisitArgs(args, i, ord, lifted) ==
    IF i > Len(args) THEN ord
    ELSE VisitArgs(args, i + 1, Visit(args[i].v, ord, lifted), lifted)

RECURSIVE EncodeValue(_, _, _)
RECURSIVE EncodeContent(_, _, _)
\* mutant: references count ids from 1 while the table counts from 0
EncodeValue_OffByOne(X, ord, lifted) ==
    IF X \in lifted THEN Ref(IndexOf(X, ord)) ELSE EncodeContent(X, ord, lifted)

\* an occurrence of X: a reference if X has a table entry, else X in place
EncodeValue(X, ord, lifted) ==
    IF X \in lifted THEN Ref(IndexOf(X, ord) - 1) ELSE EncodeContent(X, ord, lifted)
\* the encoding of X itself
EncodeContent(X, ord, lifted) ==
    CASE X.k = "fdef" ->
            [k |-> "fdef", f |-> X.f, n |-> IndexOf(X.a[1].v, ord) - 1, a |-> <<>>]
      [] X.k \in {"inv", "arr"} ->
            [X EXCEPT !.a = [i \in DOMAIN X.a |->
                                Arg(X.a[i].name, EncodeValue(X.a[i].v, ord, lifted))]]
      [] OTHER -> X

\* serialize the graph rooted at G
Serialize(G) ==
    LET lifted == Lifted(G)
        ord == Visit(G, <<>>, lifted)   \* ord[i] gets id i - 1
    IN  [result |-> IndexOf(G, ord) - 1,
         values |-> [id \in 0 .. Len(ord) - 1 |-> EncodeContent(ord[id + 1], ord, lifted)]]

\* ---------------------------------------------------------- deserializer
RECURSIVE Lookup(_, _, _)
RECURSIVE DecodeNode(_, _, _)
\* mutant: a referenced entry is taken as written, its own references are
\* left unresolved
Lookup_Shallow(doc, id, path) ==
    IF id \notin DOMAIN doc.values THEN Err("MalformedGraphError")
    ELSE IF path = {} THEN DecodeNode(doc, doc.values[id], path \cup {id})
    ELSE doc.values[id]

\* the node at id; path holds the ids being decoded (a revisit is a cycle)
Lookup(doc, id, path) ==
    IF id \notin DOMAIN doc.values THEN Err("MalformedGraphError")
    ELSE IF id \in path THEN Err("MalformedGraphError")
    ELSE DecodeNode(doc, doc.values[id], path \cup {id})
DecodeNode(doc, e, path) ==
    CASE e.k = "ref" -> Lookup(doc, e.n, path)
      [] e.k = "fdef" ->
            LET b == Lookup(doc, e.n, path)
            IN  IF IsErr(b) THEN b ELSE FDef(e.f, b)
      [] e.k \in {"inv", "arr"} ->
            LET args == [i \in DOMAIN e.a |-> Arg(e.a[i].name, DecodeNode(doc, e.a[i].v, path))]
            IN  IF e.k = "inv" /\ e.f \notin KnownFunctions THEN Err("MalformedGraphError")
                ELSE IF \E i \in DOMAIN args : IsErr(args[i].v)
                THEN args[CHOOSE i \in DOMAIN args : IsErr(args[i].v)].v
                ELSE [e EXCEPT !.a = args]
      [] OTHER -> e

\* parse a document into a graph, or fail
Deserialize(doc) ==
    IF doc.result = NoResult THEN Err("KeyError")
    ELSE IF \E id \in DOMAIN doc.values : IsErr(Lookup(doc, id, {}))
    THEN Err("MalformedGraphError")
    ELSE Lookup(doc, doc.result, {})

\* ------------------------------------------------- graph-building methods
\* the methods handlers call, per class of the receiving object
Methods(ty) ==
    CASE ty = "Image" -> {"updateMask", "lt", "gt", "lte", "unmask", "Or", "And"}
      [] ty = "FeatureCollection" -> {"map", "merge", "union", "geometry", "filter", "first"}
      [] OTHER -> {}

Image_load(id) == Inv("Image.load", <<Arg("id", Str(id))>>)
Image_constant(x) == Inv("Image.constant", <<Arg("value", Num(x))>>)
ImageCollection_load(id) == Inv("ImageCollection.load", <<Arg("id", Str(id))>>)
mosaic(c) == Inv("ImageCollection.mosaic", <<Arg("collection", c)>>)
updateMask(image, mask) == Inv("Image.updateMask", <<Arg("image", image), Arg("mask", mask)>>)
lt(image, t) == Inv("Image.lt", <<Arg("image1", image), Arg("image2", Image_constant(t))>>)
gt(image, t) == Inv("Image.gt", <<Arg("image1", image), Arg("image2", Image_constant(t))>>)
lte(image, t) == Inv("Image.lte", <<Arg("image1", image), Arg("image2", Image_constant(t))>>)
unmask(image, x) == Inv("Image.unmask", <<Arg("input", image), Arg("value", Image_constant(x))>>)
Or(a, b) == Inv("Image.or", <<Arg("image1", a), Arg("image2", b)>>)
And(a, b) == Inv("Image.and", <<Arg("image1", a), Arg("image2", b)>>)
loadTable(id) == Inv("Collection.loadTable", <<Arg("tableId", Str(id))>>)
merge(a, b) == Inv("Collection.merge", <<Arg("collection1", a), Arg("collection2", b)>>)
union(c) == Inv("Collection.union", <<Arg("collection", c)>>)
geometry(c) == Inv("Collection.geometry", <<Arg("collection", c)>>)
ErrorMargin(v) == Inv("ErrorMargin", <<Arg("value", v)>>)

\* number of function definitions inside a lambda body: it numbers the
\* mapping variable
CountFunctions(body) == Cardinality({X \in Subs(body) : X.k = "fdef"})
MappingVar(depth) ==
    CASE depth = 0 -> "_MAPPING_VAR_0_0"
      [] depth = 1 -> "_MAPPING_VAR_1_0"
      [] depth = 2 -> "_MAPPING_VAR_2_0"
      [] OTHER -> "_MAPPING_VAR_N_0"

\* the result of a handler: its status ("ok" or the error raised), the root
\* it returns, and the function names of the nodes it constructed, in order
\* kind is what the caller receives ("document", "number", "metadata" or
\* "error"), value the number of a reduction, remote the number of remote
\* evaluations made, msg the message of the error, steps the stages of
\* the tool wrapper that ran, keys the keys of the dictionary a tool returns
\* and echo the argument names under its 'input_arguments' key
NoMsg == [text |-> "", names |-> {}]
NoMeta == [d \in {} |-> [asset_id |-> "", mosaic |-> FALSE]]
Ok(graph, built) ==
    [status |-> "ok", graph |-> graph, built |-> built, kind |-> "document",
     value |-> 0, remote |-> 0, msg |-> NoMsg, meta |-> NoMeta, steps |-> <<>>,
     keys |-> {}, echo |-> {}]
Fail(error, built) ==
    [status |-> error, graph |-> NoNode, built |-> built, kind |-> "error",
     value |-> 0, remote |-> 0, msg |-> NoMsg, meta |-> NoMeta, steps |-> <<>>,
     keys |-> {}, echo |-> {}]
FailMsg(error, text, names) == [Fail(error, <<>>) EXCEPT !.msg = [text |-> text, names |-> names]]

fromJSON(doc) == Deserialize(doc)

\* ------------------------------------------------------------- handlers
IntersectFeatureNodes ==
    <<"Feature.geometry", "Collection.geometry", "ErrorMargin", "Geometry.intersection",
      "Feature", "Element.copyProperties">>

\* the body intersect_feature builds for feature f and collection fc
intersect_feature(f, fc) ==
    LET intersected ==
            Inv("Geometry.intersection",
                <<Arg("left", Inv("Feature.geometry", <<Arg("feature", f)>>)),
                  Arg("maxError", ErrorMargin(Num(100))),
                  Arg("right", geometry(fc))>>)
    IN  Inv("Element.copyProperties",
            <<Arg("destination", Inv("Feature", <<Arg("geometry", intersected)>>)),
              Arg("source", f)>>)

\* collection.map(lambda f: intersect_feature(f, fc))
map(collection, fc) ==
    LET v == MappingVar(CountFunctions(intersect_feature(ArgRef("x"), fc)))
    IN  Inv("Collection.map",
            <<Arg("baseAlgorithm", FDef(v, intersect_feature(ArgRef(v), fc))),
              Arg("collection", collection)>>)

\* mutant: an unreadable mask is ignored and the image is returned unmasked
handle_mask_image_IgnoresBadMask(image_json, mask_image_json) ==
    LET image == fromJSON(image_json)
        mask == fromJSON(mask_image_json)
    IN  IF IsErr(image) THEN Fail(image.f, <<>>)
        ELSE IF IsErr(mask) THEN Ok(image, <<>>)
        ELSE IF "updateMask" \notin Methods(TypeOf(image)) THEN Fail("AttributeError", <<>>)
        ELSE Ok(updateMask(image, mask), <<"Image.updateMask">>)

handle_mask_image(image_json, mask_image_json) ==
    LET image == fromJSON(image_json)
        mask == fromJSON(mask_image_json)
    IN  IF IsErr(image) THEN Fail(image.f, <<>>)
        ELSE IF IsErr(mask) THEN Fail(mask.f, <<>>)
        ELSE IF "updateMask" \notin Methods(TypeOf(image)) THEN Fail("AttributeError", <<>>)
        ELSE Ok(updateMask(image, mask), <<"Image.updateMask">>)

\* mutant: the comparison is threshold <= 0, so 0 selects less-than
handle_filter_image_by_threshold_LeZero(image_json, threshold) ==
    LET image == fromJSON(image_json)
    IN  IF IsErr(image) THEN Fail(image.f, <<>>)
        ELSE IF threshold <= 0
        THEN IF "lt" \notin Methods(TypeOf(image)) THEN Fail("AttributeError", <<>>)
             ELSE Ok(lt(image, threshold), <<"Image.lt">>)
        ELSE IF "gt" \notin Methods(TypeOf(image)) THEN Fail("AttributeError", <<>>)
             ELSE Ok(gt(image, threshold), <<"Image.gt">>)

handle_filter_image_by_threshold(image_json, threshold) ==
    LET image == fromJSON(image_json)
    IN  IF IsErr(image) THEN Fail(image.f, <<>>)
        ELSE IF threshold < 0
        THEN IF "lt" \notin Methods(TypeOf(image)) THEN Fail("AttributeError", <<>>)
             ELSE Ok(lt(image, threshold), <<"Image.lt">>)
        ELSE IF "gt" \notin Methods(TypeOf(image)) THEN Fail("AttributeError", <<>>)
             ELSE Ok(gt(image, threshold), <<"Image.gt">>)

RECURSIVE UnionLoop(_, _, _, _)
\* mutant: a document that cannot be deserialized is skipped
UnionLoop_SkipsBad(jsons, i, acc, built) ==
    IF i > Len(jsons) THEN Ok(acc, built)
    ELSE LET new_data == fromJSON(jsons[i])
         IN  IF IsErr(new_data) THEN UnionLoop(jsons, i + 1, acc, built)
             ELSE IF "unmask" \notin Methods(TypeOf(new_data)) THEN Fail("AttributeError", built)
             ELSE UnionLoop(jsons, i + 1, Or(acc, unmask(new_data, 0)),
                            built \o <<"Image.unmask", "Image.or">>)

\* mutant: the new operand is combined on the left of the accumulator
UnionLoop_Swapped(jsons, i, acc, built) ==
    IF i > Len(jsons) THEN Ok(acc, built)
    ELSE LET new_data == fromJSON(jsons[i])
         IN  IF IsErr(new_data) THEN Fail(new_data.f, built)
             ELSE IF "unmask" \notin Methods(TypeOf(new_data)) THEN Fail("AttributeError", built)
             ELSE UnionLoop(jsons, i + 1, Or(unmask(new_data, 0), acc),
                            built \o <<"Image.unmask", "Image.or">>)

\* the for loop of handle_union_binary_images from element i on
UnionLoop(jsons, i, acc, built) ==
    IF i > Len(jsons) THEN Ok(acc, built)
    ELSE LET new_data == fromJSON(jsons[i])
         IN  IF IsErr(new_data) THEN Fail(new_data.f, built)
             ELSE IF "unmask" \notin Methods(TypeOf(new_data)) THEN Fail("AttributeError", built)
             ELSE UnionLoop(jsons, i + 1, Or(acc, unmask(new_data, 0)),
                            built \o <<"Image.unmask", "Image.or">>)

handle_union_binary_images(binary_images_jsons) ==
    IF Len(binary_images_jsons) = 0 THEN Fail("IndexError", <<>>)
    ELSE LET first == fromJSON(binary_images_jsons[1])
         IN  IF IsErr(first) THEN Fail(first.f, <<>>)
             ELSE IF "unmask" \notin Methods(TypeOf(first)) THEN Fail("AttributeError", <<>>)
             ELSE UnionLoop(binary_images_jsons, 2, unmask(first, 0), <<"Image.unmask">>)

RECURSIVE IntersectLoop(_, _, _, _)
\* mutant: every operand is unmasked before it is combined, as in the union
IntersectLoop_Unmasks(jsons, i, acc, built) ==
    IF i > Len(jsons) THEN Ok(acc, built)
    ELSE LET new_data == fromJSON(jsons[i])
         IN  IF IsErr(new_data) THEN Fail(new_data.f, built)
             ELSE IF "And" \notin Methods(TypeOf(acc)) THEN Fail("AttributeError", built)
             ELSE IntersectLoop(jsons, i + 1, And(acc, unmask(new_data, 0)),
                                built \o <<"Image.unmask", "Image.and">>)

\* the for loop of handle_intersect_binary_images from element i on
IntersectLoop(jsons, i, acc, built) ==
    IF i > Len(jsons) THEN Ok(acc, built)
    ELSE LET new_data == fromJSON(jsons[i])
         IN  IF IsErr(new_data) THEN Fail(new_data.f, built)
             ELSE IF "And" \notin Methods(TypeOf(acc)) THEN Fail("AttributeError", built)
             ELSE IntersectLoop(jsons, i + 1, And(acc, new_data), Append(built, "Image.and"))

handle_intersect_binary_images(binary_images_jsons) ==
    IF Len(binary_images_jsons) = 0 THEN Fail("IndexError", <<>>)
    ELSE LET first == fromJSON(binary_images_jsons[1])
         IN  IF IsErr(first) THEN Fail(first.f, <<>>)
             ELSE IntersectLoop(binary_images_jsons, 2, first, <<>>)

RECURSIVE IntersectFCLoop(_, _, _, _)
\* mutant: the map node of an element is built before the element's type is
\* looked at
IntersectFCLoop_BuildsFirst(jsons, i, acc, built) ==
    IF i > Len(jsons) THEN Ok(acc, built)
    ELSE LET new_fc == fromJSON(jsons[i])
         IN  IF IsErr(new_fc) THEN Fail(new_fc.f, built)
             ELSE IF "map" \notin Methods(TypeOf(acc)) THEN Fail("AttributeError", built)
             ELSE IF TypeOf(new_fc) = "Image"
             THEN Fail("TypeError", built \o IntersectFeatureNodes \o <<"Collection.map">>)
             ELSE IntersectFCLoop(jsons, i + 1, map(acc, new_fc),
                                  built \o IntersectFeatureNodes \o <<"Collection.map">>)

\* mutant: the lambda is bound late, so every step intersects with the
\* collection the loop variable holds last
IntersectFCLoop_LateBinding(jsons, i, acc, built) ==
    IF i > Len(jsons) THEN Ok(acc, built)
    ELSE LET new_fc == fromJSON(jsons[i])
             last_fc == fromJSON(jsons[Len(jsons)])
         IN  IF IsErr(new_fc) THEN Fail(new_fc.f, built)
             ELSE IF TypeOf(new_fc) = "Image" THEN Fail("TypeError", built)
             ELSE IF "map" \notin Methods(TypeOf(acc)) THEN Fail("AttributeError", built)
             ELSE IF "geometry" \notin Methods(TypeOf(new_fc))
             THEN Fail("AttributeError", built \o <<"Feature.geometry">>)
             ELSE IntersectFCLoop(jsons, i + 1,
                                  map(acc, IF IsErr(last_fc) THEN new_fc ELSE last_fc),
                                  built \o IntersectFeatureNodes \o <<"Collection.map">>)

\* the for loop of handle_intersect_feature_collections from element i on
IntersectFCLoop(jsons, i, acc, built) ==
    IF i > Len(jsons) THEN Ok(acc, built)
    ELSE LET new_fc == fromJSON(jsons[i])
         IN  IF IsErr(new_fc) THEN Fail(new_fc.f, built)
             ELSE IF TypeOf(new_fc) = "Image" THEN Fail("TypeError", built)
             ELSE IF "map" \notin Methods(TypeOf(acc)) THEN Fail("AttributeError", built)
             ELSE IF "geometry" \notin Methods(TypeOf(new_fc))
             THEN Fail("AttributeError", built \o <<"Feature.geometry">>)
             ELSE IntersectFCLoop(jsons, i + 1, map(acc, new_fc),
                                  built \o IntersectFeatureNodes \o <<"Collection.map">>)

\* mutant: the check accepts collections only
handle_intersect_feature_collections_CollectionsOnly(feature_collections_jsons) ==
    IF Len(feature_collections_jsons) = 0 THEN Fail("IndexError", <<>>)
    ELSE LET first == fromJSON(feature_collections_jsons[1])
         IN  IF IsErr(first) THEN Fail(first.f, <<>>)
             ELSE IF TypeOf(first) # "FeatureCollection" THEN Fail("TypeError", <<>>)
             ELSE IntersectFCLoop(feature_collections_jsons, 2, first, <<>>)

handle_intersect_feature_collections(feature_collections_jsons) ==
    IF Len(feature_collections_jsons) = 0 THEN Fail("IndexError", <<>>)
    ELSE LET first == fromJSON(feature_collections_jsons[1])
         IN  IF IsErr(first) THEN Fail(first.f, <<>>)
             ELSE IF TypeOf(first) = "Image" THEN Fail("TypeError", <<>>)
             ELSE IntersectFCLoop(feature_collections_jsons, 2, first, <<>>)

RECURSIVE MergeLoop(_, _, _, _)
\* mutant: only the first element's type is looked at
MergeLoop_NoTypeCheck(jsons, i, acc, built) ==
    IF i > Len(jsons) THEN Ok(acc, built)
    ELSE LET new_data == fromJSON(jsons[i])
         IN  IF IsErr(new_data) THEN Fail(new_data.f, built)
             ELSE IF "merge" \notin Methods(TypeOf(acc)) THEN Fail("AttributeError", built)
             ELSE MergeLoop(jsons, i + 1, union(merge(acc, new_data)),
                            built \o <<"Collection.merge", "Collection.union">>)

\* mutant: the new collection is the first operand of the merge
MergeLoop_Swapped(jsons, i, acc, built) ==
    IF i > Len(jsons) THEN Ok(acc, built)
    ELSE LET new_data == fromJSON(jsons[i])
         IN  IF IsErr(new_data) THEN Fail(new_data.f, built)
             ELSE IF TypeOf(new_data) = "Image" THEN Fail("TypeError", built)
             ELSE IF "merge" \notin Methods(TypeOf(acc)) THEN Fail("AttributeError", built)
             ELSE MergeLoop(jsons, i + 1, union(merge(new_data, acc)),
                            built \o <<"Collection.merge", "Collection.union">>)

\* the for loop of handle_merge_feature_collections from element i on
MergeLoop(jsons, i, acc, built) ==
    IF i > Len(jsons) THEN Ok(acc, built)
    ELSE LET new_data == fromJSON(jsons[i])
         IN  IF IsErr(new_data) THEN Fail(new_data.f, built)
             ELSE IF TypeOf(new_data) = "Image" THEN Fail("TypeError", built)
             ELSE IF "merge" \notin Methods(TypeOf(acc)) THEN Fail("AttributeError", built)
             ELSE MergeLoop(jsons, i + 1, union(merge(acc, new_data)),
                            built \o <<"Collection.merge", "Collection.union">>)

\* mutant: the type of the first element is not looked at
handle_merge_feature_collections_NoFirstCheck(feature_collections_jsons) ==
    IF Len(feature_collections_jsons) = 0 THEN Fail("IndexError", <<>>)
    ELSE LET first == fromJSON(feature_collections_jsons[1])
         IN  IF IsErr(first) THEN Fail(first.f, <<>>)
             ELSE MergeLoop(feature_collections_jsons, 2, first, <<>>)

\* mutant: an empty list is answered with an empty collection
handle_merge_feature_collections_EmptyOk(feature_collections_jsons) ==
    IF Len(feature_collections_jsons) = 0
    THEN Ok(Inv("Collection", <<Arg("features", Arr(<<>>))>>), <<"Collection">>)
    ELSE LET first == fromJSON(feature_collections_jsons[1])
         IN  IF IsErr(first) THEN Fail(first.f, <<>>)
             ELSE IF TypeOf(first) = "Image" THEN Fail("TypeError", <<>>)
             ELSE MergeLoop(feature_collections_jsons, 2, first, <<>>)

handle_merge_feature_collections(feature_collections_jsons) ==
    IF Len(feature_collections_jsons) = 0 THEN Fail("IndexError", <<>>)
    ELSE LET first == fromJSON(feature_collections_jsons[1])
         IN  IF IsErr(first) THEN Fail(first.f, <<>>)
             ELSE IF TypeOf(first) = "Image" THEN Fail("TypeError", <<>>)
             ELSE MergeLoop(feature_collections_jsons, 2, first, <<>>)

\* the dataset registry: name -> asset id as the file has it, and mosaic flag
BASE_ASSETS_PATH == "projects/unicef-ccri/assets"
DatasetNames == {"test_dataset", "mosaic_dataset", "agricultural_drought"}
AssetId(dataset) ==
    CASE dataset = "test_dataset" -> "test_asset"
      [] dataset = "mosaic_dataset" -> "mosaic_asset"
      [] OTHER -> "drought_asset"
IsMosaic(dataset) == dataset = "mosaic_dataset"
\* the metadata file is read from a path; one of the paths does not exist
MetadataPaths == {"metadata.yaml", "regional.yaml", "/nonexistent/metadata.yaml"}
FileExists(path) == path \in {"metadata.yaml", "regional.yaml"}
\* what the file at path holds; regional.yaml has two keys that differ in
\* case only and keeps the drought dataset as a mosaic
Registry(path) ==
    IF path = "regional.yaml"
    THEN ("flood_dataset" :> [asset_id |-> "flood_2020", mosaic |-> FALSE])
         @@ ("Flood_Dataset" :> [asset_id |-> "flood_asset", mosaic |-> FALSE])
         @@ ("agricultural_drought" :> [asset_id |-> "drought_tiles", mosaic |-> TRUE])
    ELSE [d \in DatasetNames |-> [asset_id |-> AssetId(d), mosaic |-> IsMosaic(d)]]
\* the keys of the file in the order they are written
KeysInOrder(path) ==
    IF path = "regional.yaml" THEN <<"flood_dataset", "Flood_Dataset", "agricultural_drought">>
    ELSE <<"test_dataset", "mosaic_dataset", "agricultural_drought">>

\* str.lower on the names and reducers a caller sends
Lower(s) ==
    CASE s = "TEST_DATASET" -> "test_dataset"
      [] s = "Mosaic_Dataset" -> "mosaic_dataset"
      [] s = "Flood_Dataset" -> "flood_dataset"
      [] s = "MEAN" -> "mean"
      [] s = "Sum" -> "sum"
      [] s = "AVERAGE" -> "average"
      [] OTHER -> s

\* the values of the enum made from {name.upper(): name}: names with the same
\* upper-casing (the same lower-casing) share one member, whose value is the
\* name written last
load_all_datasets_enum(path_to_metadata) ==
    LET keys == KeysInOrder(path_to_metadata)
    IN  {keys[i] : i \in {j \in DOMAIN keys :
                             \A k \in DOMAIN keys : k > j => Lower(keys[k]) # Lower(keys[j])}}

\* opening a missing file raises FileNotFoundError, which the except clause
\* turns into a ValueError; the dictionary is keyed by the enum's values
load_datasets_metadata(path_to_metadata) ==
    IF ~FileExists(path_to_metadata)
    THEN [error |-> "ValueError", text |-> "Error loading datasets metadata",
          metadata |-> NoMeta]
    ELSE [error |-> "", text |-> "",
          metadata |-> [d \in load_all_datasets_enum(path_to_metadata) |->
                           [asset_id |-> BASE_ASSETS_PATH \o "/"
                                         \o Registry(path_to_metadata)[d].asset_id,
                            mosaic |-> Registry(path_to_metadata)[d].mosaic]]]

\* the dataset names of the metadata file
load_all_datasets(path_to_metadata) ==
    IF ~FileExists(path_to_metadata)
    THEN [error |-> "ValueError", text |-> "Failed to load dataset metadata", names |-> {}]
    ELSE [error |-> "", text |-> "", names |-> DOMAIN Registry(path_to_metadata)]

handle_get_all_datasets_and_metadata(path_to_metadata) ==
    LET loaded == load_datasets_metadata(path_to_metadata)
    IN  IF loaded.error # "" THEN FailMsg(loaded.error, loaded.text, {})
        ELSE [Ok(NoNode, <<>>) EXCEPT !.kind = "metadata", !.meta = loaded.metadata]

\* mutant: the drought mask is applied whatever the mosaic flag says
BuildDatasetImage_MasksMosaic(dataset, loaded) ==
        IF loaded.error # "" THEN FailMsg(loaded.error, loaded.text, {})
        ELSE IF dataset \notin DOMAIN loaded.metadata
        THEN FailMsg("KeyError", "Invalid dataset", DOMAIN loaded.metadata)
        ELSE LET metadata == loaded.metadata[dataset]
                 image == IF metadata.mosaic THEN mosaic(ImageCollection_load(metadata.asset_id))
                          ELSE Image_load(metadata.asset_id)
                 nodes == IF metadata.mosaic
                          THEN <<"ImageCollection.load", "ImageCollection.mosaic">>
                          ELSE <<"Image.load">>
             IN  IF dataset = "agricultural_drought"
                 THEN Ok(updateMask(image, lte(image, 100)),
                         nodes \o <<"Image.lte", "Image.updateMask">>)
                 ELSE Ok(image, nodes)

\* handle_get_dataset_image once the registry is loaded
BuildDatasetImage(dataset, loaded) ==
        IF loaded.error # "" THEN FailMsg(loaded.error, loaded.text, {})
        ELSE IF dataset \notin DOMAIN loaded.metadata
        THEN FailMsg("KeyError", "Invalid dataset", DOMAIN loaded.metadata)
        ELSE LET metadata == loaded.metadata[dataset]
             IN  IF metadata.mosaic
                 THEN Ok(mosaic(ImageCollection_load(metadata.asset_id)),
                         <<"ImageCollection.load", "ImageCollection.mosaic">>)
                 ELSE IF dataset = "agricultural_drought"
                 THEN Ok(updateMask(Image_load(metadata.asset_id),
                                    lte(Image_load(metadata.asset_id), 100)),
                         <<"Image.load", "Image.lte", "Image.updateMask">>)
                 ELSE Ok(Image_load(metadata.asset_id), <<"Image.load">>)

handle_get_dataset_image(dataset, path_to_metadata) ==
    BuildDatasetImage(dataset, load_datasets_metadata(path_to_metadata))

TH_SHAPE_AREA == 33
COUNTRY_BOUNDRIES_DATASET == "projects/unicef-ccri/assets/adm0_wfp"
ADMIN_LEVEL_1_BOUNDRIES_DATASET == "projects/unicef-ccri/assets/adm1_wfp"

\* the 3-letter code of a country name, or the name unchanged if unknown
get_country_code(country) ==
    CASE country \in {"Uruguay", "UY", "URY"} -> "URY"
      [] OTHER -> country

\* mutant: the comparison is shape area >= 33, so exactly 33 selects 10000
handle_get_zone_of_area_Gte(area_name, area_type) ==
    IF area_type = "country"
    THEN LET code == get_country_code(area_name)
             area_boundry ==
                Inv("Collection.filter",
                    <<Arg("collection", loadTable(COUNTRY_BOUNDRIES_DATASET)),
                      Arg("filter", Inv("Filter.equals",
                                        <<Arg("leftField", Str("iso3")),
                                          Arg("rightValue", Str(code))>>))>>)
             shape_area ==
                Inv("Element.getNumber",
                    <<Arg("object", Inv("Collection.first", <<Arg("collection", area_boundry)>>)),
                      Arg("property", Str("Shape_Area"))>>)
             simplification_tolerance ==
                Inv("If",
                    <<Arg("condition", Inv("Number.gte", <<Arg("left", shape_area),
                                                          Arg("right", Num(TH_SHAPE_AREA))>>)),
                      Arg("falseCase", Num(100)),
                      Arg("trueCase", Num(10000))>>)
             simplified ==
                Inv("Geometry.simplify",
                    <<Arg("geometry", geometry(area_boundry)),
                      Arg("maxError", ErrorMargin(simplification_tolerance))>>)
         IN  Ok(Inv("Collection",
                    <<Arg("features", Arr(<<Inv("Feature", <<Arg("geometry", simplified)>>)>>))>>),
                <<"Collection.loadTable", "Filter.equals", "Collection.filter",
                  "Collection.first", "Element.getNumber", "Number.gte", "If",
                  "Collection.geometry", "Geometry.simplify", "Collection">>)
    ELSE Ok(Inv("Collection.filter",
                <<Arg("collection", loadTable(ADMIN_LEVEL_1_BOUNDRIES_DATASET)),
                  Arg("filter", Inv("Filter.equals",
                                    <<Arg("leftField", Str("shapeName")),
                                      Arg("rightValue", Str(area_name))>>))>>),
            <<"Collection.loadTable", "Filter.equals", "Collection.filter">>)

handle_get_zone_of_area(area_name, area_type) ==
    IF area_type = "country"
    THEN LET code == get_country_code(area_name)
             area_boundry ==
                Inv("Collection.filter",
                    <<Arg("collection", loadTable(COUNTRY_BOUNDRIES_DATASET)),
                      Arg("filter", Inv("Filter.equals",
                                        <<Arg("leftField", Str("iso3")),
                                          Arg("rightValue", Str(code))>>))>>)
             shape_area ==
                Inv("Element.getNumber",
                    <<Arg("object", Inv("Collection.first", <<Arg("collection", area_boundry)>>)),
                      Arg("property", Str("Shape_Area"))>>)
             simplification_tolerance ==
                Inv("If",
                    <<Arg("condition", Inv("Number.gt", <<Arg("left", shape_area),
                                                          Arg("right", Num(TH_SHAPE_AREA))>>)),
                      Arg("falseCase", Num(100)),
                      Arg("trueCase", Num(10000))>>)
             simplified ==
                Inv("Geometry.simplify",
                    <<Arg("geometry", geometry(area_boundry)),
                      Arg("maxError", ErrorMargin(simplification_tolerance))>>)
         IN  Ok(Inv("Collection",
                    <<Arg("features", Arr(<<Inv("Feature", <<Arg("geometry", simplified)>>)>>))>>),
                <<"Collection.loadTable", "Filter.equals", "Collection.filter",
                  "Collection.first", "Element.getNumber", "Number.gt", "If",
                  "Collection.geometry", "Geometry.simplify", "Collection">>)
    ELSE Ok(Inv("Collection.filter",
                <<Arg("collection", loadTable(ADMIN_LEVEL_1_BOUNDRIES_DATASET)),
                  Arg("filter", Inv("Filter.equals",
                                    <<Arg("leftField", Str("shapeName")),
                                      Arg("rightValue", Str(area_name))>>))>>),
            <<"Collection.loadTable", "Filter.equals", "Collection.filter">>)

\* ---------------------------------------------------------- region reduce
REDUCERS == {"mean", "max", "min", "sum", "median", "std"}
AREA_TYPES == {"country", "admin1"}
\* the default scale 92.76624195666344 of handle_reduce_image, in thousandths
DEFAULT_SCALE == 92766
CRS == "EPSG:4326"

Reducer(reducer) == Inv("Reducer." \o reducer, <<>>)
reduceRegions(image, collection, reducer, scale) ==
    Inv("Image.reduceRegions",
        <<Arg("collection", collection), Arg("crs", Str(CRS)), Arg("image", image),
          Arg("reducer", reducer), Arg("scale", Num(scale))>>)

\* what the remote evaluation answers: nothing, an error, or the list of
\* per-feature statistics (the value of the reducer's property per feature)
ReplyNone == [kind |-> "none", features |-> <<>>]
ReplyError == [kind |-> "error", features |-> <<>>]
ReplyFeatures(values) == [kind |-> "features", features |-> values]
Replies == {ReplyNone, ReplyError, ReplyFeatures(<<>>), ReplyFeatures(<<3>>),
            ReplyFeatures(<<3, 4>>), ReplyFeatures(<<4, 3>>), ReplyFeatures(<<5, 3, 4>>)}

RECURSIVE SumOf(_, _)
\* mutant: the result is assigned, not added to, so the last feature wins
SumOf_Assigns(features, i) ==
    IF i > Len(features) THEN 0
    ELSE IF i = Len(features) THEN features[i]
    ELSE SumOf(features, i + 1)

\* aggregation_result += feature["properties"][reducer], feature by feature
SumOf(features, i) == IF i > Len(features) THEN 0 ELSE features[i] + SumOf(features, i + 1)

\* mutant: a failed round-trip is tried once more before it is surfaced
handle_reduce_image_Retries(image_json, feature_collection_json, reducer, scale, reply) ==
    LET image == fromJSON(image_json)
        feature_collection == fromJSON(feature_collection_json)
        nodes == <<"Reducer." \o reducer, "Image.reduceRegions">>
    IN  IF IsErr(image) THEN Fail(image.f, <<>>)
        ELSE IF IsErr(feature_collection) THEN Fail(feature_collection.f, <<>>)
        ELSE IF TypeOf(image) # "Image" \/ reducer \notin REDUCERS
        THEN Fail("AttributeError", <<>>)
        ELSE LET reduced == reduceRegions(image, feature_collection, Reducer(reducer), scale)
             IN  IF reply.kind = "error"
                 THEN [Fail("EEException", nodes) EXCEPT !.remote = 2]
                 ELSE IF reply.kind = "none"
                 THEN [Fail("ValueError", nodes) EXCEPT
                          !.remote = 1, !.msg = [text |-> "No statistics found", names |-> {}]]
                 ELSE [Ok(reduced, nodes) EXCEPT
                          !.kind = "number", !.remote = 1,
                          !.value = SumOf(reply.features, 1)]

\* reply is the answer of the one getInfo() round-trip, if it is reached
handle_reduce_image(image_json, feature_collection_json, reducer, scale, reply) ==
    LET image == fromJSON(image_json)
        feature_collection == fromJSON(feature_collection_json)
        nodes == <<"Reducer." \o reducer, "Image.reduceRegions">>
    IN  IF IsErr(image) THEN Fail(image.f, <<>>)
        ELSE IF IsErr(feature_collection) THEN Fail(feature_collection.f, <<>>)
        ELSE IF TypeOf(image) # "Image" \/ reducer \notin REDUCERS
        THEN Fail("AttributeError", <<>>)
        ELSE LET reduced == reduceRegions(image, feature_collection, Reducer(reducer), scale)
             IN  IF reply.kind = "error"
                 THEN [Fail("EEException", nodes) EXCEPT !.remote = 1]
                 ELSE IF reply.kind = "none"
                 THEN [Fail("ValueError", nodes) EXCEPT
                          !.remote = 1, !.msg = [text |-> "No statistics found", names |-> {}]]
                 ELSE [Ok(reduced, nodes) EXCEPT
                          !.kind = "number", !.remote = 1,
                          !.value = SumOf(reply.features, 1)]

\* ------------------------------------------------------------ tool wrappers
\* the texts a caller sends: the JSON text of a document is the document; the
\* empty string is NoDoc; a damaged text records what is wrong with it
Unclosed(doc) == [damaged |-> "unclosed", of |-> doc]
BlankText == [damaged |-> "blank", of |-> NoDoc]
IncompleteText == [damaged |-> "incomplete", of |-> NoDoc]
\* the object {"incomplete": ""}: JSON, but without 'result' and 'values'
IncompleteDoc == [result |-> NoResult, values |-> (0 :> Str(""))]

\* repair_json: well-formed JSON is kept, missing closing delimiters and a
\* missing member value are supplied, and a text that holds no JSON at all
\* (empty or blank) is answered with the empty string
repair_json(json_str) ==
    IF "damaged" \notin DOMAIN json_str THEN json_str
    ELSE CASE json_str.damaged = "unclosed" -> json_str.of
           [] json_str.damaged = "incomplete" -> IncompleteDoc
           [] OTHER -> NoDoc

\* mutant: the empty result of the repair is passed on
safe_json_loads_AcceptsEmpty(json_str) ==
    [error |-> "", res |-> repair_json(json_str)]

safe_json_loads(json_str) ==
    LET res == repair_json(json_str)
    IN  IF res = NoDoc THEN [error |-> "ValueError", res |-> res]
        ELSE [error |-> "", res |-> res]

RECURSIVE RepairAll(_, _)
\* the for loop of the list tools, which repairs the elements in place from
\* element i on and stops at the first that cannot be repaired
RepairAll(jsons, i) ==
    IF i > Len(jsons) THEN [error |-> "", res |-> jsons, steps |-> <<>>]
    ELSE LET repaired == safe_json_loads(jsons[i])
         IN  IF repaired.error # ""
             THEN [error |-> repaired.error, res |-> jsons, steps |-> <<"repair">>]
             ELSE LET rest == RepairAll([jsons EXCEPT ![i] = repaired.res], i + 1)
                  IN  [rest EXCEPT !.steps = <<"repair">> \o @]

\* the dictionary a tool returns around the handler's result r
Dict(r, keys, echo) ==
    IF r.status # "ok" THEN r ELSE [r EXCEPT !.keys = keys, !.echo = echo]
InvalidJson(steps) == [FailMsg("ValueError", "Invalid JSON string", {}) EXCEPT !.steps = steps]

\* the tool mask_image
mask_image(image_json, mask_image_json) ==
    LET image == safe_json_loads(image_json)
        mask == safe_json_loads(mask_image_json)
    IN  IF image.error # "" THEN InvalidJson(<<"repair">>)
        ELSE IF mask.error # "" THEN InvalidJson(<<"repair", "repair">>)
        ELSE Dict([handle_mask_image(image.res, mask.res) EXCEPT
                      !.steps = <<"repair", "repair", "handler">>],
                  {"image_json"}, {})

\* the tool filter_image_by_threshold
filter_image_by_threshold(image_json, threshold) ==
    LET image == safe_json_loads(image_json)
    IN  IF image.error # "" THEN InvalidJson(<<"repair">>)
        ELSE Dict([handle_filter_image_by_threshold(image.res, threshold) EXCEPT
                      !.steps = <<"repair", "handler">>],
                  {"image_json", "input_arguments"}, {"threshold"})

\* the tool union_binary_images
union_binary_images(binary_images_jsons) ==
    LET repaired == RepairAll(binary_images_jsons, 1)
    IN  IF repaired.error # "" THEN InvalidJson(repaired.steps)
        ELSE Dict([handle_union_binary_images(repaired.res) EXCEPT
                      !.steps = Append(repaired.steps, "handler")],
                  {"image_json"}, {})

\* the tool intersect_binary_images
intersect_binary_images(binary_images_jsons) ==
    LET repaired == RepairAll(binary_images_jsons, 1)
    IN  IF repaired.error # "" THEN InvalidJson(repaired.steps)
        ELSE Dict([handle_intersect_binary_images(repaired.res) EXCEPT
                      !.steps = Append(repaired.steps, "handler")],
                  {"image_json"}, {})

\* the tool intersect_feature_collections
intersect_feature_collections(feature_collections_jsons) ==
    LET repaired == RepairAll(feature_collections_jsons, 1)
    IN  IF repaired.error # "" THEN InvalidJson(repaired.steps)
        ELSE Dict([handle_intersect_feature_collections(repaired.res) EXCEPT
                      !.steps = Append(repaired.steps, "handler")],
                  {"feature_collection_json"}, {})

\* the tool merge_feature_collections
merge_feature_collections(feature_collections_jsons) ==
    LET repaired == RepairAll(feature_collections_jsons, 1)
    IN  IF repaired.error # "" THEN InvalidJson(repaired.steps)
        ELSE Dict([handle_merge_feature_collections(repaired.res) EXCEPT
                      !.steps = Append(repaired.steps, "handler")],
                  {"feature_collection_json"}, {})

\* mutant: the name is not looked up in the registry before the handler runs
get_dataset_image_NoCheck(dataset, path_to_metadata) ==
    Dict([handle_get_dataset_image(Lower(dataset), path_to_metadata) EXCEPT
             !.steps = <<"handler">>],
         {"image_json", "input_arguments"}, {"dataset"})

\* mutant: the requested name is looked up as it was sent
get_dataset_image_KeepsCase(dataset, path_to_metadata) ==
    LET all == load_all_datasets(path_to_metadata)
    IN  IF all.error # ""
        THEN [FailMsg(all.error, all.text, {}) EXCEPT !.steps = <<"validate">>]
        ELSE IF dataset \notin all.names
        THEN [FailMsg("ValueError", "Invalid dataset", all.names) EXCEPT !.steps = <<"validate">>]
        ELSE Dict([handle_get_dataset_image(dataset, path_to_metadata) EXCEPT
                      !.steps = <<"validate", "handler">>],
                  {"image_json", "input_arguments"}, {"dataset"})

\* the tool get_dataset_image_and_metadata
get_dataset_image(dataset, path_to_metadata) ==
    LET name == Lower(dataset)
        all == load_all_datasets(path_to_metadata)
    IN  IF all.error # ""
        THEN [FailMsg(all.error, all.text, {}) EXCEPT !.steps = <<"validate">>]
        ELSE IF name \notin all.names
        THEN [FailMsg("ValueError", "Invalid dataset", all.names) EXCEPT !.steps = <<"validate">>]
        ELSE Dict([handle_get_dataset_image(name, path_to_metadata) EXCEPT
                      !.steps = <<"validate", "handler">>],
                  {"image_json", "input_arguments"}, {"dataset"})

\* mutant: the reducer is looked up only by the handler, after the repair
reduce_image_NoValidation(image_json, feature_collection_json, reducer, extra, reply) ==
    LET image == safe_json_loads(image_json)
        feature_collection == safe_json_loads(feature_collection_json)
    IN  Dict([handle_reduce_image(image.res, feature_collection.res, Lower(reducer),
                                  DEFAULT_SCALE, reply)
                 EXCEPT !.steps = <<"repair", "repair", "handler">>],
             {"aggregation_result", "input_arguments"}, {"reducer"})

\* the tool reduce_image: three parameters, so a call with more arguments
\* (extra) is rejected when the arguments are bound
reduce_image(image_json, feature_collection_json, reducer, extra, reply) ==
    IF extra # <<>> THEN Fail("TypeError", <<>>)
    ELSE LET name == Lower(reducer)
             image == safe_json_loads(image_json)
             feature_collection == safe_json_loads(feature_collection_json)
         IN  IF name \notin REDUCERS
             THEN [FailMsg("ValueError", "Invalid reducer", REDUCERS) EXCEPT
                      !.steps = <<"validate">>]
             ELSE IF image.error # ""
             THEN InvalidJson(<<"validate", "repair">>)
             ELSE IF feature_collection.error # ""
             THEN InvalidJson(<<"validate", "repair", "repair">>)
             ELSE Dict([handle_reduce_image(image.res, feature_collection.res, name,
                                            DEFAULT_SCALE, reply)
                           EXCEPT !.steps = <<"validate", "repair", "repair", "handler">>],
                       {"aggregation_result", "input_arguments"}, {"reducer"})

\* the tool get_zone_of_area
get_zone_of_area(area_name, area_type) ==
    IF area_type \notin AREA_TYPES
    THEN [FailMsg("ValueError", "Invalid area type", AREA_TYPES) EXCEPT !.steps = <<"validate">>]
    ELSE Dict([handle_get_zone_of_area(area_name, area_type) EXCEPT
                  !.steps = <<"validate", "handler">>],
              {"zone_json", "input_arguments"}, {"area_name", "area_type"})

\* ---------------------------------------------------------------- inputs
Thresholds == {-1, 0, 1}
RequestedDatasets == DatasetNames \cup {"unknown_dataset", "Flood_Dataset"}
AreaNames == {"Uruguay", "Salto"}
AreaTypes == {"country", "admin1"}
ToolDatasets == RequestedDatasets \cup {"TEST_DATASET", "flood_dataset"}
ToolAreaTypes == AreaTypes \cup {"invalid_type"}
HandlerReducers == {"mean", "sum", "average"}
ToolReducers == {"mean", "Sum", "AVERAGE"}
\* scales in thousandths: the default and the 100.0 of the integration tests
Scales == {DEFAULT_SCALE, 100000}
ExtraArgs == {<<>>, <<100000>>}

\* documents of the test suite: a raster and a vector table
TestImageDoc == [result |-> 0, values |-> (0 :> Image_load("projects/unicef-ccri/assets/binary1"))]
TestTableDoc == [result |-> 0, values |-> (0 :> loadTable("projects/unicef-ccri/assets/adm0_wfp"))]

\* documents a caller can send that break reference integrity
AbsentResultDoc == [result |-> NoResult, values |-> (0 :> Image_load("a"))]
DanglingResultDoc == [result |-> 5, values |-> (0 :> Image_load("a"))]
DanglingRefDoc ==
    [result |-> 0, values |-> (0 :> Inv("Image.and", <<Arg("image1", Ref(1)),
                                                       Arg("image2", Image_load("a"))>>))]
UnreachableDanglingDoc ==
    [result |-> 0,
     values |-> (0 :> Image_load("a")) @@ (1 :> Inv("Image.unmask", <<Arg("input", Ref(7))>>))]
SelfCycleDoc ==
    [result |-> 0, values |-> (0 :> Inv("Image.and", <<Arg("image1", Ref(0)),
                                                       Arg("image2", Image_load("a"))>>))]
TwoCycleDoc ==
    [result |-> 0,
     values |-> (0 :> Inv("Image.unmask", <<Arg("input", Ref(1))>>))
                @@ (1 :> Inv("Image.unmask", <<Arg("input", Ref(0))>>))]
DanglingDocs == {AbsentResultDoc, DanglingResultDoc, DanglingRefDoc, UnreachableDanglingDoc}
CyclicDocs == {SelfCycleDoc, TwoCycleDoc}
MalformedDocs == DanglingDocs \cup CyclicDocs

\* documents of a single feature, of a geometry and of a number
NonCollectionDocs ==
    {Serialize(Inv("Feature", <<Arg("geometry",
                                    geometry(loadTable("projects/unicef-ccri/assets/adm0_wfp")))>>)),
     Serialize(geometry(loadTable("projects/unicef-ccri/assets/adm0_wfp"))),
     Serialize(Inv("Element.getNumber",
                   <<Arg("object",
                         Inv("Collection.first",
                             <<Arg("collection",
                                   loadTable("projects/unicef-ccri/assets/adm0_wfp"))>>)),
                     Arg("property", Str("Shape_Area"))>>))}

\* the texts a caller makes of the documents of the pool: sent as they are,
\* cut before the closing delimiters, or no document at all
Texts(pool) == pool \cup {Unclosed(doc) : doc \in pool} \cup {NoDoc, BlankText, IncompleteText}

\* the lists of at most MaxList documents of the pool
Lists(pool) == UNION {[1 .. len -> pool] : len \in 0 .. MaxList}

\* ----------------------------------------------------------------- state
\* held: the documents the client has received and can pass to later calls
\* last: the last tool call, its arguments and its outcome
\* running: the requests a concurrent transport has in flight, each with the
\* local variables of its handler
VARIABLES held, last, running
vars == <<held, last, running>>

NoReply == [kind |-> "unasked", features |-> <<>>]
NoParams ==
    [t |-> 0, name |-> "", atype |-> "", reducer |-> "", scale |-> 0, extra |-> <<>>,
     path |-> "", reply |-> NoReply]
NoCall ==
    [op |-> "none", level |-> "", ins |-> <<>>, t |-> 0, name |-> "", atype |-> "",
     reducer |-> "", scale |-> 0, extra |-> <<>>, path |-> "", reply |-> NoReply,
     status |-> "none", graph |-> NoNode, out |-> NoDoc, built |-> <<>>,
     kind |-> "", value |-> 0, remote |-> 0, msg |-> NoMsg, meta |-> NoMeta,
     steps |-> <<>>, keys |-> {}, echo |-> {}]

\* the requests a transport that serves concurrently can have in flight, and
\* the local variables of a handler that has not been entered
Requests == {"a", "b"}
NoRequest ==
    [pc |-> "idle", op |-> "none", ins |-> <<>>, name |-> "", path |-> "", i |-> 0,
     acc |-> NoNode, built |-> <<>>,
     loaded |-> [error |-> "", text |-> "", metadata |-> NoMeta],
     result |-> Fail("none", <<>>)]

\* the server is idle: no call is being answered
Idle == last.op = "none"

\* one call on the idle, single-threaded server, of a handler (level
\* "handler") or of the tool that wraps it (level "tool"), with parameters p
\* and result r; a returned graph is serialized, and the reply of the remote
\* service is recorded only when it was asked
CallWith(op, level, ins, p, r) ==
    /\ last.op = "none"
    /\ last' = [op |-> op, level |-> level, ins |-> ins, t |-> p.t, name |-> p.name,
                atype |-> p.atype, reducer |-> p.reducer, scale |-> p.scale,
                extra |-> p.extra, path |-> p.path,
                reply |-> IF r.remote > 0 THEN p.reply ELSE NoReply,
                status |-> r.status, graph |-> r.graph,
                out |-> IF r.kind = "document" THEN Serialize(r.graph) ELSE NoDoc,
                built |-> r.built, kind |-> r.kind, value |-> r.value,
                remote |-> r.remote, msg |-> r.msg, meta |-> r.meta, steps |-> r.steps,
                keys |-> r.keys, echo |-> r.echo]
    /\ UNCHANGED <<held, running>>

\* a handler call with the parameters of the graph-composing handlers
Call(op, ins, t, name, atype, r) ==
    CallWith(op, "handler", ins, [NoParams EXCEPT !.t = t, !.name = name, !.atype = atype], r)

\* the response reaches the client, which keeps the returned document when
\* keep holds and it has room; the request's graph is discarded
Respond(keep) ==
    /\ last.op # "none"
    /\ held' = IF /\ keep
                  /\ last.kind = "document"
                  /\ Cardinality(held) < MaxHeld
                  /\ Size(last.graph) <= MaxNodes
               THEN held \cup {last.out}
               ELSE held
    /\ last' = NoCall
    /\ UNCHANGED running

GetDatasetImage ==
    /\ Idle
    /\ \E dataset \in RequestedDatasets, path \in MetadataPaths :
           CallWith("get_dataset_image", "handler", <<>>,
                    [NoParams EXCEPT !.name = dataset, !.path = path],
                    handle_get_dataset_image(dataset, path))

GetAllDatasetsAndMetadata ==
    /\ Idle
    /\ \E path \in MetadataPaths :
           CallWith("get_all_datasets_and_metadata", "handler", <<>>,
                    [NoParams EXCEPT !.path = path],
                    handle_get_all_datasets_and_metadata(path))

ToolGetDatasetImage ==
    /\ Idle
    /\ \E dataset \in ToolDatasets, path \in MetadataPaths :
           CallWith("get_dataset_image", "tool", <<>>,
                    [NoParams EXCEPT !.name = dataset, !.path = path],
                    get_dataset_image(dataset, path))

ToolGetZoneOfArea ==
    /\ Idle
    /\ \E area_name \in AreaNames, area_type \in ToolAreaTypes :
           CallWith("get_zone_of_area", "tool", <<>>,
                    [NoParams EXCEPT !.name = area_name, !.atype = area_type],
                    get_zone_of_area(area_name, area_type))

ReduceImage(pool) ==
    /\ Idle
    /\ \E image_json \in pool, feature_collection_json \in pool,
          reducer \in HandlerReducers, scale \in Scales, reply \in Replies :
           CallWith("reduce_image", "handler", <<image_json, feature_collection_json>>,
                    [NoParams EXCEPT !.reducer = reducer, !.scale = scale, !.reply = reply],
                    handle_reduce_image(image_json, feature_collection_json, reducer, scale, reply))

ToolReduceImage(pool) ==
    /\ Idle
    /\ \E image_json \in pool, feature_collection_json \in pool,
          reducer \in ToolReducers, extra \in ExtraArgs, reply \in Replies :
           CallWith("reduce_image", "tool", <<image_json, feature_collection_json>>,
                    [NoParams EXCEPT !.reducer = reducer, !.extra = extra, !.reply = reply],
                    reduce_image(image_json, feature_collection_json, reducer, extra, reply))

GetZoneOfArea ==
    /\ Idle
    /\ \E area_name \in AreaNames, area_type \in AreaTypes :
           Call("get_zone_of_area", <<>>, 0, area_name, area_type,
                handle_get_zone_of_area(area_name, area_type))

MaskImage(pool) ==
    /\ Idle
    /\ \E image_json \in pool, mask_image_json \in pool :
           Call("mask_image", <<image_json, mask_image_json>>, 0, "", "",
                handle_mask_image(image_json, mask_image_json))

FilterImageByThreshold(pool) ==
    /\ Idle
    /\ \E image_json \in pool, threshold \in Thresholds :
           Call("filter_image_by_threshold", <<image_json>>, threshold, "", "",
                handle_filter_image_by_threshold(image_json, threshold))

UnionBinaryImages(pool) ==
    /\ Idle
    /\ \E jsons \in Lists(pool) :
           Call("union_binary_images", jsons, 0, "", "", handle_union_binary_images(jsons))

IntersectBinaryImages(pool) ==
    /\ Idle
    /\ \E jsons \in Lists(pool) :
           Call("intersect_binary_images", jsons, 0, "", "",
                handle_intersect_binary_images(jsons))

IntersectFeatureCollections(pool) ==
    /\ Idle
    /\ \E jsons \in Lists(pool) :
           Call("intersect_feature_collections", jsons, 0, "", "",
                handle_intersect_feature_collections(jsons))

MergeFeatureCollections(pool) ==
    /\ Idle
    /\ \E jsons \in Lists(pool) :
           Call("merge_feature_collections", jsons, 0, "", "",
                handle_merge_feature_collections(jsons))

ToolMaskImage(pool) ==
    /\ Idle
    /\ \E image_json \in pool, mask_image_json \in pool :
           CallWith("mask_image", "tool", <<image_json, mask_image_json>>, NoParams,
                    mask_image(image_json, mask_image_json))

ToolFilterImageByThreshold(pool) ==
    /\ Idle
    /\ \E image_json \in pool, threshold \in Thresholds :
           CallWith("filter_image_by_threshold", "tool", <<image_json>>,
                    [NoParams EXCEPT !.t = threshold],
                    filter_image_by_threshold(image_json, threshold))

ToolUnionBinaryImages(pool) ==
    /\ Idle
    /\ \E jsons \in Lists(pool) :
           CallWith("union_binary_images", "tool", jsons, NoParams, union_binary_images(jsons))

ToolIntersectBinaryImages(pool) ==
    /\ Idle
    /\ \E jsons \in Lists(pool) :
           CallWith("intersect_binary_images", "tool", jsons, NoParams,
                    intersect_binary_images(jsons))

ToolIntersectFeatureCollections(pool) ==
    /\ Idle
    /\ \E jsons \in Lists(pool) :
           CallWith("intersect_feature_collections", "tool", jsons, NoParams,
                    intersect_feature_collections(jsons))

ToolMergeFeatureCollections(pool) ==
    /\ Idle
    /\ \E jsons \in Lists(pool) :
           CallWith("merge_feature_collections", "tool", jsons, NoParams,
                    merge_feature_collections(jsons))

\* request r enters handle_union_binary_images or handle_get_dataset_image
Receive(r) ==
    /\ running[r].pc = "idle"
    /\ \/ \E jsons \in Lists(held) :
              running' = [running EXCEPT ![r] =
                  [NoRequest EXCEPT !.pc = "union", !.op = "union_binary_images",
                                    !.ins = jsons, !.i = 1]]
       \/ \E dataset \in RequestedDatasets, path \in MetadataPaths :
              running' = [running EXCEPT ![r] =
                  [NoRequest EXCEPT !.pc = "load", !.op = "get_dataset_image",
                                    !.name = dataset, !.path = path]]
    /\ UNCHANGED <<held, last>>

\* mutant: the accumulator is one module-level variable, so a request goes on
\* from what another request in the loop has accumulated
UnionIterate_SharedAccumulator(r) ==
    /\ running[r].pc = "union"
    /\ LET q == running[r]
           others == {o \in Requests \ {r} : running[o].pc = "union" /\ running[o].i > 1}
           shared == IF others = {} THEN q.acc ELSE running[CHOOSE o \in others : TRUE].acc
       IN  running' = [running EXCEPT ![r] =
               IF Len(q.ins) = 0
               THEN [q EXCEPT !.pc = "done", !.result = Fail("IndexError", <<>>)]
               ELSE IF q.i > Len(q.ins)
               THEN [q EXCEPT !.pc = "done", !.result = Ok(shared, q.built)]
               ELSE LET new_data == fromJSON(q.ins[q.i])
                    IN  IF IsErr(new_data)
                        THEN [q EXCEPT !.pc = "done", !.result = Fail(new_data.f, q.built)]
                        ELSE IF "unmask" \notin Methods(TypeOf(new_data))
                        THEN [q EXCEPT !.pc = "done", !.result = Fail("AttributeError", q.built)]
                        ELSE IF q.i = 1
                        THEN [q EXCEPT !.i = 2, !.acc = unmask(new_data, 0),
                                       !.built = <<"Image.unmask">>]
                        ELSE [q EXCEPT !.i = @ + 1, !.acc = Or(shared, unmask(new_data, 0)),
                                       !.built = @ \o <<"Image.unmask", "Image.or">>]]
    /\ UNCHANGED <<held, last>>

\* one statement of handle_union_binary_images in request r: the first
\* element, one loop iteration, or the return
UnionIterate(r) ==
    /\ running[r].pc = "union"
    /\ LET q == running[r]
       IN  running' = [running EXCEPT ![r] =
               IF Len(q.ins) = 0
               THEN [q EXCEPT !.pc = "done", !.result = Fail("IndexError", <<>>)]
               ELSE IF q.i > Len(q.ins)
               THEN [q EXCEPT !.pc = "done", !.result = Ok(q.acc, q.built)]
               ELSE LET new_data == fromJSON(q.ins[q.i])
                    IN  IF IsErr(new_data)
                        THEN [q EXCEPT !.pc = "done", !.result = Fail(new_data.f, q.built)]
                        ELSE IF "unmask" \notin Methods(TypeOf(new_data))
                        THEN [q EXCEPT !.pc = "done", !.result = Fail("AttributeError", q.built)]
                        ELSE IF q.i = 1
                        THEN [q EXCEPT !.i = 2, !.acc = unmask(new_data, 0),
                                       !.built = <<"Image.unmask">>]
                        ELSE [q EXCEPT !.i = @ + 1, !.acc = Or(q.acc, unmask(new_data, 0)),
                                       !.built = @ \o <<"Image.unmask", "Image.or">>]]
    /\ UNCHANGED <<held, last>>

\* request r reads the registry file into its own dictionary
LoadMetadata(r) ==
    /\ running[r].pc = "load"
    /\ running' = [running EXCEPT ![r].pc = "build",
                                  ![r].loaded = load_datasets_metadata(running[r].path)]
    /\ UNCHANGED <<held, last>>

\* request r builds the dataset's graph from the dictionary it loaded
BuildImage(r) ==
    /\ running[r].pc = "build"
    /\ running' = [running EXCEPT ![r].pc = "done",
                      ![r].result = BuildDatasetImage(running[r].name, running[r].loaded)]
    /\ UNCHANGED <<held, last>>

\* the result of request r is sent and its local variables are dropped
Collect(r) ==
    /\ running[r].pc = "done"
    /\ running' = [running EXCEPT ![r] = NoRequest]
    /\ UNCHANGED <<held, last>>

\* a client that composes the documents it received from earlier calls
Init == held = {} /\ last = NoCall /\ running = [r \in Requests |-> NoRequest]
Next ==
    \/ GetDatasetImage
    \/ GetZoneOfArea
    \/ MaskImage(held)
    \/ FilterImageByThreshold(held)
    \/ UnionBinaryImages(held)
    \/ IntersectBinaryImages(held)
    \/ IntersectFeatureCollections(held)
    \/ MergeFeatureCollections(held)
    \/ GetAllDatasetsAndMetadata
    \/ ToolGetDatasetImage
    \/ ToolGetZoneOfArea
    \/ ReduceImage(held)
    \/ ToolReduceImage(held)
    \/ Respond(TRUE)
Spec == Init /\ [][Next]_vars

\* a client that holds two documents and also sends malformed ones
InitMalformed ==
    /\ held = {TestImageDoc, TestTableDoc} /\ last = NoCall
    /\ running = [r \in Requests |-> NoRequest]
NextMalformed ==
    \/ GetDatasetImage
    \/ GetZoneOfArea
    \/ MaskImage(held \cup MalformedDocs)
    \/ FilterImageByThreshold(held \cup MalformedDocs)
    \/ UnionBinaryImages(held \cup MalformedDocs)
    \/ IntersectBinaryImages(held \cup MalformedDocs)
    \/ IntersectFeatureCollections(held \cup MalformedDocs)
    \/ MergeFeatureCollections(held \cup MalformedDocs)
    \/ GetAllDatasetsAndMetadata
    \/ ToolGetDatasetImage
    \/ ToolGetZoneOfArea
    \/ ReduceImage(held \cup MalformedDocs)
    \/ ToolReduceImage(held \cup MalformedDocs)
    \/ Respond(FALSE)
SpecMalformed == InitMalformed /\ [][NextMalformed]_vars

\* a client that holds two documents and calls the registered tools with
\* texts of them, damaged ones included
InitTools ==
    /\ held = {TestImageDoc, TestTableDoc} /\ last = NoCall
    /\ running = [r \in Requests |-> NoRequest]
NextTools ==
    \/ ToolGetDatasetImage
    \/ ToolGetZoneOfArea
    \/ ToolMaskImage(Texts(held))
    \/ ToolFilterImageByThreshold(Texts(held))
    \/ ToolUnionBinaryImages(Texts(held))
    \/ ToolIntersectBinaryImages(Texts(held))
    \/ ToolIntersectFeatureCollections(Texts(held))
    \/ ToolMergeFeatureCollections(Texts(held))
    \/ ToolReduceImage(Texts(held))
    \/ Respond(FALSE)
SpecTools == InitTools /\ [][NextTools]_vars

\* a client that holds two documents and also sends documents of values
\* that are neither rasters nor collections
NextTyped ==
    \/ MaskImage(held \cup NonCollectionDocs)
    \/ FilterImageByThreshold(held \cup NonCollectionDocs)
    \/ UnionBinaryImages(held \cup NonCollectionDocs)
    \/ IntersectBinaryImages(held \cup NonCollectionDocs)
    \/ IntersectFeatureCollections(held \cup NonCollectionDocs)
    \/ MergeFeatureCollections(held \cup NonCollectionDocs)
    \/ ReduceImage(held \cup NonCollectionDocs)
    \/ Respond(FALSE)
SpecTyped == InitTools /\ [][NextTyped]_vars

\* a transport that runs the handlers of several requests interleaved,
\* statement by statement
NextConcurrent ==
    \/ \E r \in Requests : Receive(r)
    \/ \E r \in Requests : UnionIterate(r)
    \/ \E r \in Requests : LoadMetadata(r)
    \/ \E r \in Requests : BuildImage(r)
    \/ \E r \in Requests : Collect(r)
SpecConcurrent == InitTools /\ [][NextConcurrent]_vars

\* ------------------------------------------------- reading a document
RECURSIVE EncList(_)
RECURSIVE EncListArgs(_, _)
\* every encoding written in e, e included, one element per occurrence
EncList(e) == <<e>> \o EncListArgs(e.a, 1)
EncListArgs(args, i) ==
    IF i > Len(args) THEN <<>> ELSE EncList(args[i].v) \o EncListArgs(args, i + 1)

\* the ids that the entry e refers to (value references and function bodies)
RefsIn(e) ==
    LET encs == EncList(e)
    IN  {encs[i].n : i \in {j \in DOMAIN encs : encs[j].k \in {"ref", "fdef"}}}

\* the function invocations written out in full in the document: the entry,
\* the position in the entry, and the subgraph the encoding stands for
WrittenOut(doc) ==
    UNION {LET encs == EncList(doc.values[id])
           IN  {<<id, i, DecodeNode(doc, encs[i], {})>> :
                    i \in {j \in DOMAIN encs : encs[j].k = "inv"}} :
           id \in DOMAIN doc.values}

\* number of places of the document where the subgraph X is written out in
\* full (not as a reference)
TimesEncoded(written, X) == Cardinality({w \in written : w[3] = X})

RECURSIVE Walk(_, _, _)
RECURSIVE WalkArgs(_, _, _, _)
\* the ids of the document in the order a depth-first reading from the
\* result entry first meets them
Walk(doc, e, seen) ==
    IF e.k \in {"ref", "fdef"}
    THEN IF IndexOf(e.n, seen) # 0 \/ e.n \notin DOMAIN doc.values THEN seen
         ELSE Walk(doc, doc.values[e.n], Append(seen, e.n))
    ELSE WalkArgs(doc, e.a, 1, seen)
WalkArgs(doc, args, i, seen) ==
    IF i > Len(args) THEN seen
    ELSE WalkArgs(doc, args, i + 1, Walk(doc, args[i].v, seen))
FirstMet(doc) == Walk(doc, Ref(doc.result), <<>>)

\* the ids reachable from entry id through one or more references
RECURSIVE ReachFrom(_, _, _)
ReachFrom(doc, frontier, found) ==
    LET next == UNION {RefsIn(doc.values[i]) : i \in frontier \cap DOMAIN doc.values}
    IN  IF next \subseteq found THEN found
        ELSE ReachFrom(doc, next \ found, found \cup next)
Acyclic(doc) == \A id \in DOMAIN doc.values : id \notin ReachFrom(doc, {id}, {})

Returned == last.op # "none" /\ last.status = "ok" /\ last.kind = "document"
ListOps ==
    {"union_binary_images", "intersect_binary_images", "intersect_feature_collections",
     "merge_feature_collections"}

\* ------------------------------------------------------------ properties

\* C1: every function invocation of a returned graph, however often it
\* occurs in the graph, is written out exactly once in the returned document
\* (all its other occurrences are value references), also when the
\* occurrences come from two separately deserialized documents.
C1_Deduplicated ==
    Returned =>
        LET written == WrittenOut(last.out)
        IN  \A X \in Subs(last.graph) : X.k = "inv" => TimesEncoded(written, X) = 1

\* merge-vectors received the same document twice and the shared collection
\* is referenced twice from the returned document
C1_Witness ==
    /\ Returned
    /\ last.op = "merge_feature_collections"
    /\ Len(last.ins) = 2
    /\ last.ins[1] = last.ins[2]
    /\ LET encs == EncList(last.out.values[0])
       IN  \E id \in DOMAIN last.out.values :
              Cardinality({i \in DOMAIN encs : encs[i] = Ref(id)}) = 2

\* C2: deserializing a returned document gives back the graph the handler
\* built, with the same type tag, and serializing that again gives the same
\* document.
C2_RoundTrip ==
    Returned =>
        /\ Deserialize(last.out) = last.graph
        /\ TypeOf(Deserialize(last.out)) = TypeOf(last.graph)
        /\ Serialize(Deserialize(last.out)) = last.out

\* a returned document with a table of more than one entry
C2_Witness ==
    /\ Returned
    /\ Cardinality(DOMAIN last.out.values) >= 2
    /\ Deserialize(last.out) = last.graph

\* C3: the result pointer of a returned document is 0, entry 0 is the root,
\* and the ids are 0, 1, 2, ... in the order a reading from the root first
\* meets them.
C3_RootIsZero ==
    Returned =>
        /\ last.out.result = 0
        /\ DecodeNode(last.out, last.out.values[0], {}) = last.graph
        /\ DOMAIN last.out.values = 0 .. Cardinality(DOMAIN last.out.values) - 1
        /\ FirstMet(last.out) = [i \in 1 .. Cardinality(DOMAIN last.out.values) |-> i - 1]

\* a returned document with at least two entries besides the root
C3_Witness ==
    /\ Returned
    /\ Cardinality(DOMAIN last.out.values) >= 3
    /\ last.out.result = 0

\* C4 as claimed: every value reference in the entry of id k points to an id
\* strictly smaller than k.
C4_AsClaimed ==
    Returned =>
        \A k \in DOMAIN last.out.values : \A r \in RefsIn(last.out.values[k]) : r < k

\* C4 as amended: every reference in the entry of id k points to an entry of
\* the table other than k and other than the root, and the references form
\* no cycle; the references of the root entry 0 all point to larger ids.
C4_Acyclic ==
    Returned =>
        /\ \A k \in DOMAIN last.out.values : \A r \in RefsIn(last.out.values[k]) :
              r \in DOMAIN last.out.values /\ r # k /\ r # 0
        /\ Acyclic(last.out)

\* a returned document whose root entry refers to another entry, and a
\* later entry that refers to an earlier one
C4_Witness ==
    /\ Returned
    /\ RefsIn(last.out.values[0]) # {}
    /\ \E k \in DOMAIN last.out.values : \E r \in RefsIn(last.out.values[k]) : 0 < r /\ r < k

\* the handler of a list-folding tool
ListHandler(op, jsons) ==
    CASE op = "union_binary_images" -> handle_union_binary_images(jsons)
      [] op = "intersect_binary_images" -> handle_intersect_binary_images(jsons)
      [] op = "intersect_feature_collections" -> handle_intersect_feature_collections(jsons)
      [] OTHER -> handle_merge_feature_collections(jsons)

\* position of the first document of the call that is in the set S
FirstIn(S) == CHOOSE i \in DOMAIN last.ins :
                 last.ins[i] \in S /\ \A j \in 1 .. i - 1 : last.ins[j] \notin S
SendsOneOf(S) == last.op # "none" /\ \E i \in DOMAIN last.ins : last.ins[i] \in S
IsRaster(doc) == TypeOf(Deserialize(doc)) = "Image"

\* C5 as claimed: a call that is given a document with an absent result
\* pointer or a dangling id fails, returns no document, and its handler has
\* built nothing.
C5_AsClaimed ==
    SendsOneOf(DanglingDocs) =>
        /\ last.status # "ok"
        /\ last.out = NoDoc /\ last.graph = NoNode
        /\ last.built = <<>>

\* C5 as amended: such a call fails and returns no document; mask and
\* threshold have built nothing, and a list-folding handler has built exactly
\* the nodes it builds for the documents before the first malformed one
\* (nothing when that one comes first).
C5_FailsNoDocument ==
    SendsOneOf(DanglingDocs) =>
        /\ last.status # "ok"
        /\ last.out = NoDoc /\ last.graph = NoNode
        /\ last.op \in {"mask_image", "filter_image_by_threshold"} => last.built = <<>>
        /\ last.op \in ListOps =>
              /\ last.built =
                    ListHandler(last.op, SubSeq(last.ins, 1, FirstIn(MalformedDocs) - 1)).built
              /\ FirstIn(MalformedDocs) = 1 => last.built = <<>>

\* union-binary stops at a dangling reference in its second document after
\* it has unmasked the first
C5_Witness ==
    /\ last.op = "union_binary_images"
    /\ last.ins = <<TestImageDoc, DanglingRefDoc>>
    /\ last.status = "MalformedGraphError"
    /\ last.built = <<"Image.unmask">>
    /\ last.out = NoDoc

\* C6: a call that is given a document whose references form a cycle (an
\* entry referring to itself included) ends with an error and returns no
\* graph and no document.
C6_CycleFails ==
    SendsOneOf(CyclicDocs) =>
        /\ last.status \notin {"ok", "none"}
        /\ last.out = NoDoc /\ last.graph = NoNode

\* mask is given a readable image and a self-referring mask document
C6_Witness ==
    /\ last.op = "mask_image"
    /\ last.ins = <<TestImageDoc, SelfCycleDoc>>
    /\ last.status = "MalformedGraphError"
    /\ last.out = NoDoc

RECURSIVE UnionOf(_, _)
\* or(...or(unmask(A1, 0), unmask(A2, 0))..., unmask(An, 0))
UnionOf(jsons, len) ==
    IF len = 1 THEN unmask(Deserialize(jsons[1]), 0)
    ELSE Inv("Image.or", <<Arg("image1", UnionOf(jsons, len - 1)),
                           Arg("image2", unmask(Deserialize(jsons[len]), 0))>>)

RECURSIVE IntersectionOf(_, _)
\* and(...and(A1, A2)..., An)
IntersectionOf(jsons, len) ==
    IF len = 1 THEN Deserialize(jsons[1])
    ELSE Inv("Image.and", <<Arg("image1", IntersectionOf(jsons, len - 1)),
                            Arg("image2", Deserialize(jsons[len]))>>)

Count(name, seq) == Cardinality({i \in DOMAIN seq : seq[i] = name})
AllRasters == Len(last.ins) >= 1 /\ \A i \in DOMAIN last.ins : IsRaster(last.ins[i])

\* C8: union-binary of rasters [A1..An], n >= 1, returns the left fold
\* or(...or(unmask(A1,0), unmask(A2,0))..., unmask(An,0)): one unmask per
\* operand, n - 1 or nodes, and unmask(A1,0) alone for n = 1.
C8_UnionFold ==
    (last.op = "union_binary_images" /\ AllRasters) =>
        /\ last.status = "ok"
        /\ last.graph = UnionOf(last.ins, Len(last.ins))
        /\ Count("Image.unmask", last.built) = Len(last.ins)
        /\ Count("Image.or", last.built) = Len(last.ins) - 1
        /\ Len(last.ins) = 1 => last.graph.f = "Image.unmask"

\* a union of three rasters, not all the same, whose root's first operand
\* combines the first two
C8_Witness ==
    /\ last.op = "union_binary_images"
    /\ AllRasters
    /\ Len(last.ins) = 3
    /\ last.ins[1] # last.ins[2]
    /\ last.status = "ok"
    /\ last.graph.a[1].v = UnionOf(last.ins, 2)

\* C9: intersect-binary of rasters [A1..An], n >= 1, returns the left fold
\* and(...and(A1, A2)..., An) with no unmask node, and A1 itself for n = 1.
C9_IntersectFold ==
    (last.op = "intersect_binary_images" /\ AllRasters) =>
        /\ last.status = "ok"
        /\ last.graph = IntersectionOf(last.ins, Len(last.ins))
        /\ last.built = [i \in 1 .. Len(last.ins) - 1 |-> "Image.and"]
        /\ Len(last.ins) = 1 => last.graph = Deserialize(last.ins[1]) /\ last.out = last.ins[1]

\* an intersection of three rasters, not all the same
C9_Witness ==
    /\ last.op = "intersect_binary_images"
    /\ AllRasters
    /\ Len(last.ins) = 3
    /\ last.ins[2] # last.ins[3]
    /\ last.status = "ok"
    /\ last.graph.a[1].v = IntersectionOf(last.ins, 2)

\* C10: each list-folding handler called with an empty list fails with an
\* index error and returns no document.
C10_EmptyList ==
    (last.op \in ListOps /\ last.ins = <<>>) =>
        /\ last.status = "IndexError"
        /\ last.out = NoDoc /\ last.graph = NoNode

\* merge-vectors was called with no document
C10_Witness ==
    /\ last.op = "merge_feature_collections"
    /\ last.ins = <<>>
    /\ last.status = "IndexError"

VectorOps == {"intersect_feature_collections", "merge_feature_collections"}
Rasters == {last.ins[i] : i \in {j \in DOMAIN last.ins : IsRaster(last.ins[j])}}

\* C11: intersect-vectors and merge-vectors given a list with a raster at any
\* position fail with a type error and return no document.
C11_VectorTypeRejection ==
    (last.op \in VectorOps /\ Rasters # {}) =>
        /\ last.status = "TypeError"
        /\ last.kind = "error"
        /\ last.out = NoDoc /\ last.graph = NoNode

\* merge-vectors was given two vectors and then a raster
C11_Witness ==
    /\ last.op = "merge_feature_collections"
    /\ Len(last.ins) = 3
    /\ ~IsRaster(last.ins[1]) /\ ~IsRaster(last.ins[2]) /\ IsRaster(last.ins[3])
    /\ last.status = "TypeError"

\* the nodes a vector handler builds for one element after the first
NodesPerElement(op) ==
    IF op = "intersect_feature_collections" THEN IntersectFeatureNodes \o <<"Collection.map">>
    ELSE <<"Collection.merge", "Collection.union">>
RECURSIVE Repeat(_, _)
Repeat(seq, times) == IF times <= 0 THEN <<>> ELSE seq \o Repeat(seq, times - 1)

\* C12 as claimed: when a vector handler raises the type error, it has built
\* no node, wherever the first raster is in the list.
C12_AsClaimed ==
    (last.op \in VectorOps /\ last.status = "TypeError") => last.built = <<>>

\* C12 as amended: a vector handler looks at the type of each element when it
\* reads it, before it builds the node for that element: with the first
\* raster at position k it raises the type error having built the nodes of
\* elements 2 .. k - 1 only, so nothing for k <= 2.
C12_ChecksInterleaved ==
    (last.op \in VectorOps /\ Rasters # {}) =>
        LET k == FirstIn(Rasters)
        IN  /\ last.status = "TypeError"
            /\ last.built = Repeat(NodesPerElement(last.op), k - 2)
            /\ k <= 2 => last.built = <<>>

\* intersect-vectors was given two vectors and then a raster, and had built
\* the map over the first two when it raised
C12_Witness ==
    /\ last.op = "intersect_feature_collections"
    /\ Len(last.ins) = 3
    /\ Rasters # {}
    /\ FirstIn(Rasters) = 3
    /\ last.status = "TypeError"
    /\ last.built = IntersectFeatureNodes \o <<"Collection.map">>

\* C13 as claimed: mask given an image or a mask document that is not a
\* raster, and threshold given a document that is not a raster, fail and
\* return no document (any error is taken for the type mismatch).
C13_AsClaimed ==
    /\ (last.op = "mask_image" /\ (~IsRaster(last.ins[1]) \/ ~IsRaster(last.ins[2]))) =>
            last.status # "ok" /\ last.out = NoDoc
    /\ (last.op = "filter_image_by_threshold" /\ ~IsRaster(last.ins[1])) =>
            last.status # "ok" /\ last.out = NoDoc

\* the reduction of a call got its answer from the remote service
Asked == last.op = "reduce_image" /\ last.remote > 0

\* C14 as claimed: a reduction whose round-trip answers nothing, or answers
\* an empty list of features, fails and returns no number.
C14_AsClaimed ==
    (Asked /\ (last.reply.kind = "none" \/ last.reply = ReplyFeatures(<<>>))) =>
        /\ last.status # "ok"
        /\ last.kind # "number"

\* the value of the argument called name of an invocation
ArgOf(X, name) == X.a[CHOOSE i \in DOMAIN X.a : X.a[i].name = name].v

\* C15 as claimed: the reduce tool called with a scale, a known reducer, a
\* raster and a vector builds the reduction at that scale and at EPSG:4326.
C15_AsClaimed ==
    (/\ last.op = "reduce_image" /\ last.level = "tool"
     /\ last.extra # <<>>
     /\ Lower(last.reducer) \in REDUCERS
     /\ IsRaster(last.ins[1]) /\ ~IsRaster(last.ins[2])) =>
        /\ last.graph.f = "Image.reduceRegions"
        /\ ArgOf(last.graph, "scale") = Num(last.extra[1])
        /\ ArgOf(last.graph, "crs") = Str(CRS)

\* the reduction gets as far as its round-trip: both documents deserialize,
\* the image is a raster, the reducer is one of REDUCERS and, at the tool,
\* the call has the tool's three arguments
ReachesEvaluation ==
    /\ last.op = "reduce_image"
    /\ \A i \in DOMAIN last.ins : ~IsErr(Deserialize(last.ins[i]))
    /\ IsRaster(last.ins[1])
    /\ IF last.level = "tool" THEN last.extra = <<>> /\ Lower(last.reducer) \in REDUCERS
       ELSE last.reducer \in REDUCERS

\* C16 as claimed: every reduce call makes exactly one remote evaluation and
\* every other call makes none.
C16_AsClaimed ==
    last.op # "none" => last.remote = (IF last.op = "reduce_image" THEN 1 ELSE 0)

\* C16 as amended: only reduce makes remote evaluations, and at most one: one
\* when the call gets as far as the evaluation, none when it fails before;
\* a failed round-trip is surfaced as the call's error after that one try.
C16_OneRoundTrip ==
    last.op # "none" =>
        /\ last.op # "reduce_image" => last.remote = 0
        /\ last.op = "reduce_image" => last.remote = (IF ReachesEvaluation THEN 1 ELSE 0)
        /\ (Asked /\ last.reply = ReplyError) =>
              last.status = "EEException" /\ last.kind = "error"

\* a reduce call whose one round-trip failed
C16_Witness ==
    /\ Asked
    /\ last.reply = ReplyError
    /\ last.remote = 1
    /\ last.status = "EEException"

\* what the service computes for a tolerance node when the first matched
\* boundary has the given shape area
EvalNumber(X, shape_area) == IF X.k = "num" THEN X.n ELSE shape_area
EvalCondition(X, shape_area) ==
    LET left == EvalNumber(ArgOf(X, "left"), shape_area)
        right == EvalNumber(ArgOf(X, "right"), shape_area)
    IN  CASE X.f = "Number.gt" -> left > right
          [] X.f = "Number.gte" -> left >= right
          [] X.f = "Number.lt" -> left < right
          [] OTHER -> left <= right
EvalIf(X, shape_area) ==
    IF EvalCondition(ArgOf(X, "condition"), shape_area)
    THEN EvalNumber(ArgOf(X, "trueCase"), shape_area)
    ELSE EvalNumber(ArgOf(X, "falseCase"), shape_area)
ShapeAreas == {0, 32, 33, 34, 100}
SimplifyNodes(G) == {X \in Subs(G) : X.k = "inv" /\ X.f = "Geometry.simplify"}
ZoneReturned == last.op = "get_zone_of_area" /\ last.status = "ok"

\* C17: a zone graph has a simplify node exactly for area type country; its
\* tolerance is an If node over the Shape_Area of the first matched boundary
\* that gives 10000 above 33 and 100 up to and including 33; for admin1 the
\* graph is the name filter on the admin-1 collection.
C17_ZoneSimplification ==
    ZoneReturned =>
        /\ (SimplifyNodes(last.graph) # {}) <=> (last.atype = "country")
        /\ \A X \in SimplifyNodes(last.graph) :
              LET tolerance == ArgOf(ArgOf(X, "maxError"), "value")
                  condition == ArgOf(tolerance, "condition")
              IN  /\ tolerance.k = "inv" /\ tolerance.f = "If"
                  /\ ArgOf(condition, "left").f = "Element.getNumber"
                  /\ ArgOf(ArgOf(condition, "left"), "property") = Str("Shape_Area")
                  /\ ArgOf(ArgOf(condition, "left"), "object").f = "Collection.first"
                  /\ ArgOf(condition, "right") = Num(TH_SHAPE_AREA)
                  /\ \A shape_area \in ShapeAreas :
                        EvalIf(tolerance, shape_area) =
                            (IF shape_area > 33 THEN 10000 ELSE 100)
        /\ last.atype = "admin1" =>
              last.graph = Inv("Collection.filter",
                               <<Arg("collection", loadTable(ADMIN_LEVEL_1_BOUNDRIES_DATASET)),
                                 Arg("filter", Inv("Filter.equals",
                                                   <<Arg("leftField", Str("shapeName")),
                                                     Arg("rightValue", Str(last.name))>>))>>)

\* a country zone was returned, with its simplify node and If tolerance
C17_Witness ==
    /\ ZoneReturned
    /\ last.atype = "country"
    /\ \E X \in SimplifyNodes(last.graph) :
          EvalIf(ArgOf(ArgOf(X, "maxError"), "value"), 33) = 100

\* the tool stopped at its validation: nothing repaired, deserialized, built
\* or evaluated, and no document returned
StoppedAtValidation ==
    /\ last.steps = <<"validate">>
    /\ last.built = <<>> /\ last.graph = NoNode
    /\ last.remote = 0
    /\ last.out = NoDoc /\ last.kind = "error"

\* C18: the reduce tool called with a reducer that is not in REDUCERS after
\* lower-casing, and the zone tool called with an area type not in
\* AREA_TYPES, fail with a ValueError that lists the valid set, before any
\* repair, deserialization, construction or evaluation.
C18_UnknownReducerOrAreaType ==
    /\ (/\ last.op = "reduce_image" /\ last.level = "tool" /\ last.extra = <<>>
        /\ Lower(last.reducer) \notin REDUCERS) =>
            /\ last.status = "ValueError"
            /\ last.msg = [text |-> "Invalid reducer", names |-> REDUCERS]
            /\ StoppedAtValidation
    /\ (/\ last.op = "get_zone_of_area" /\ last.level = "tool"
        /\ last.atype \notin AREA_TYPES) =>
            /\ last.status = "ValueError"
            /\ last.msg = [text |-> "Invalid area type", names |-> AREA_TYPES]
            /\ StoppedAtValidation

\* the reduce tool was called with AVERAGE on two documents
C18_Witness ==
    /\ last.op = "reduce_image" /\ last.level = "tool"
    /\ last.reducer = "AVERAGE"
    /\ Len(last.ins) = 2
    /\ last.status = "ValueError"
    /\ last.msg.names = REDUCERS

\* C19: get-dataset-graph called with a name that is not in the registry
\* fails with an 'Invalid dataset' error that lists the registry's names and
\* builds no graph: a ValueError of the tool, raised before the handler runs,
\* and a KeyError of the handler.
C19_UnknownDataset ==
    (/\ last.op = "get_dataset_image"
     /\ FileExists(last.path)
     /\ (IF last.level = "tool" THEN Lower(last.name) ELSE last.name)
            \notin DOMAIN Registry(last.path)) =>
        /\ last.msg = [text |-> "Invalid dataset",
                       names |-> IF last.level = "tool" THEN DOMAIN Registry(last.path)
                                 ELSE load_all_datasets_enum(last.path)]
        /\ last.built = <<>> /\ last.graph = NoNode /\ last.out = NoDoc
        /\ last.level = "tool" => last.status = "ValueError" /\ last.steps = <<"validate">>
        /\ last.level = "handler" => last.status = "KeyError"

\* the tool was called with a name that is not in the registry
C19_Witness ==
    /\ last.op = "get_dataset_image" /\ last.level = "tool"
    /\ last.name = "unknown_dataset"
    /\ FileExists(last.path)
    /\ last.status = "ValueError"
    /\ last.steps = <<"validate">>

\* C20 as claimed: the two registry handlers called with the path of a file
\* that does not exist raise FileNotFoundError.
C20_AsClaimed ==
    (/\ last.op \in {"get_all_datasets_and_metadata", "get_dataset_image"}
     /\ last.level = "handler"
     /\ ~FileExists(last.path)) =>
        last.status = "FileNotFoundError"

\* ------------------------------------------------------------ tool level
DocumentTools ==
    {"mask_image", "filter_image_by_threshold", "union_binary_images",
     "intersect_binary_images", "intersect_feature_collections",
     "merge_feature_collections", "reduce_image"}
\* the texts that hold no JSON
Unrepairable == {NoDoc, BlankText}
\* a tool call that got past the binding and validation of its arguments
PastValidation ==
    /\ last.level = "tool" /\ last.op \in DocumentTools
    /\ last.extra = <<>>
    /\ last.op = "reduce_image" => Lower(last.reducer) \in REDUCERS
StepsBeforeRepair == IF last.op = "reduce_image" THEN <<"validate">> ELSE <<>>

\* C21: in every tool that takes documents, all document arguments are
\* repaired before the handler (and with it any deserialization) runs; when
\* the repair of an argument yields the empty string the tool fails with
\* ValueError 'Invalid JSON string' at that argument and the handler is
\* never invoked.
C21_RepairBeforeHandler ==
    PastValidation =>
        LET n == Len(last.ins)
            bad == {i \in 1 .. n : last.ins[i] \in Unrepairable}
        IN  IF bad = {}
            THEN last.steps = StepsBeforeRepair \o Repeat(<<"repair">>, n) \o <<"handler">>
            ELSE /\ last.status = "ValueError"
                 /\ last.msg = [text |-> "Invalid JSON string", names |-> {}]
                 /\ last.steps = StepsBeforeRepair
                                  \o Repeat(<<"repair">>, CHOOSE i \in bad : \A j \in bad : i <= j)
                 /\ last.built = <<>> /\ last.graph = NoNode /\ last.out = NoDoc

\* the union tool was called with a list whose second text is blank
C21_Witness ==
    /\ last.op = "union_binary_images" /\ last.level = "tool"
    /\ Len(last.ins) = 3
    /\ last.ins[1] = Unclosed(TestImageDoc)
    /\ last.ins[2] = BlankText
    /\ last.status = "ValueError"
    /\ last.steps = <<"repair", "repair">>

\* C23 as claimed: each of the six graph-composing tools that returns,
\* returns a dictionary with its result document key and an
\* 'input_arguments' key.
C23_AsClaimed ==
    (/\ last.level = "tool"
     /\ last.op \in DocumentTools \ {"reduce_image"}
     /\ last.status = "ok") =>
        /\ (IF last.op \in VectorOps THEN "feature_collection_json" ELSE "image_json")
               \in last.keys
        /\ "input_arguments" \in last.keys

\* ------------------------------------------------------------ concurrency
\* C22: whatever the interleaving of the statements of concurrent requests,
\* each request returns the result its handler returns when it runs alone on
\* the same inputs; the result depends on the inputs only, so repeated calls
\* with the same inputs return the same document.
C22_RequestIndependence ==
    \A r \in Requests :
        running[r].pc = "done" =>
            running[r].result =
                IF running[r].op = "union_binary_images"
                THEN handle_union_binary_images(running[r].ins)
                ELSE handle_get_dataset_image(running[r].name, running[r].path)

\* a union of three documents has returned while another request, with
\* other inputs, is in the middle of its loop
C22_Witness ==
    /\ running["a"].pc = "done" /\ running["a"].op = "union_binary_images"
    /\ Len(running["a"].ins) = 3 /\ running["a"].result.status = "ok"
    /\ running["b"].pc = "union" /\ running["b"].i = 2
    /\ running["b"].ins # running["a"].ins

\* ------------------------------------------------------------ vector folds
AllVectors == Len(last.ins) >= 1 /\ \A i \in DOMAIN last.ins : ~IsRaster(last.ins[i])

RECURSIVE IsIntersectChain(_, _, _)
\* X is the intersection of jsons[1 .. len]: a map over the intersection of
\* jsons[1 .. len - 1] whose function intersects each feature's geometry with
\* the geometry of jsons[len] and copies the feature's properties
IsIntersectChain(X, jsons, len) ==
    IF len = 1 THEN X = Deserialize(jsons[1])
    ELSE /\ X.k = "inv" /\ X.f = "Collection.map"
         /\ {X.a[i].name : i \in DOMAIN X.a} = {"baseAlgorithm", "collection"}
         /\ LET fn == ArgOf(X, "baseAlgorithm")
                f == ArgRef(fn.f)
            IN  /\ fn.k = "fdef"
                /\ ArgOf(fn, "body") =
                      Inv("Element.copyProperties",
                          <<Arg("destination",
                                Inv("Feature", <<Arg("geometry",
                                    Inv("Geometry.intersection",
                                        <<Arg("left", Inv("Feature.geometry",
                                                          <<Arg("feature", f)>>)),
                                          Arg("maxError", Inv("ErrorMargin",
                                                              <<Arg("value", Num(100))>>)),
                                          Arg("right", Inv("Collection.geometry",
                                                           <<Arg("collection",
                                                                 Deserialize(jsons[len]))>>))>>))>>)),
                            Arg("source", f)>>)
         /\ IsIntersectChain(ArgOf(X, "collection"), jsons, len - 1)

\* C24: intersect-vectors of [C1..Cn] returns n - 1 nested map nodes built
\* left to right; step i maps over the accumulator and builds, per feature f,
\* Feature(intersection(geometry(f), geometry(C(i+1)), ErrorMargin 100)) with
\* the properties of f copied, each step with its own C(i+1); for n = 1 it
\* returns C1 unchanged.
C24_VectorIntersectChain ==
    (last.op = "intersect_feature_collections" /\ last.level = "handler" /\ AllVectors) =>
        /\ last.status = "ok"
        /\ IsIntersectChain(last.graph, last.ins, Len(last.ins))
        /\ Count("Collection.map", last.built) = Len(last.ins) - 1
        /\ Len(last.ins) = 1 => last.graph = Deserialize(last.ins[1]) /\ last.out = last.ins[1]

\* an intersection of three vectors whose second and third differ
C24_Witness ==
    /\ last.op = "intersect_feature_collections" /\ last.level = "handler"
    /\ AllVectors
    /\ Len(last.ins) = 3
    /\ last.ins[2] # last.ins[3]
    /\ last.status = "ok"
    /\ last.graph.f = "Collection.map"

RECURSIVE MergeOf(_, _)
\* union(merge(...union(merge(C1, C2))..., Cn))
MergeOf(jsons, len) ==
    IF len = 1 THEN Deserialize(jsons[1])
    ELSE Inv("Collection.union",
             <<Arg("collection",
                   Inv("Collection.merge",
                       <<Arg("collection1", MergeOf(jsons, len - 1)),
                         Arg("collection2", Deserialize(jsons[len]))>>))>>)

\* C25: merge-vectors of [C1..Cn] returns
\* union(merge(...union(merge(C1, C2))..., Cn)): n - 1 merge nodes and n - 1
\* union nodes, the accumulator always the first operand of the merge; for
\* n = 1 it returns C1 unchanged, with no union.
C25_VectorMergeChain ==
    (last.op = "merge_feature_collections" /\ last.level = "handler" /\ AllVectors) =>
        /\ last.status = "ok"
        /\ last.graph = MergeOf(last.ins, Len(last.ins))
        /\ Count("Collection.merge", last.built) = Len(last.ins) - 1
        /\ Count("Collection.union", last.built) = Len(last.ins) - 1
        /\ Len(last.ins) = 1 => last.graph = Deserialize(last.ins[1]) /\ last.out = last.ins[1]

\* a merge of three vectors whose first and second differ
C25_Witness ==
    /\ last.op = "merge_feature_collections" /\ last.level = "handler"
    /\ AllVectors
    /\ Len(last.ins) = 3
    /\ last.ins[1] # last.ins[2]
    /\ last.status = "ok"
    /\ last.graph.f = "Collection.union"

\* ------------------------------------------------------------ aggregation
\* the lists that hold the same values as features, in any order
Reordered(features) ==
    {g \in [DOMAIN features -> {features[i] : i \in DOMAIN features}] :
        \A i \in DOMAIN features : Count(features[i], g) = Count(features[i], features)}

LookedUp == IF last.level = "tool" THEN Lower(last.name) ELSE last.name

\* C27: the dataset graph is mosaic(ImageCollection(asset_id)) when the
\* registry marks the dataset as a mosaic and Image(asset_id) otherwise,
\* wrapped in updateMask(image, image <= 100) exactly when the dataset is no
\* mosaic and is named 'agricultural_drought'; asset_id is the registry's
\* value behind the base assets path, prefixed once, whatever was loaded
\* before.
C27_DatasetGraph ==
    (last.op = "get_dataset_image" /\ last.status = "ok") =>
        LET entry == Registry(last.path)[LookedUp]
            asset_id == Str(BASE_ASSETS_PATH \o "/" \o entry.asset_id)
            image == Inv("Image.load", <<Arg("id", asset_id)>>)
            masked == ~entry.mosaic /\ LookedUp = "agricultural_drought"
        IN  /\ entry.mosaic =>
                  last.graph = Inv("ImageCollection.mosaic",
                                   <<Arg("collection",
                                         Inv("ImageCollection.load", <<Arg("id", asset_id)>>))>>)
            /\ (~entry.mosaic /\ ~masked) => last.graph = image
            /\ masked =>
                  last.graph = Inv("Image.updateMask",
                                   <<Arg("image", image),
                                     Arg("mask", Inv("Image.lte",
                                                     <<Arg("image1", image),
                                                       Arg("image2", Image_constant(100))>>))>>)
            /\ masked <=> (\E X \in Subs(last.graph) : X.f = "Image.updateMask")

\* the drought dataset of a registry that keeps it as a mosaic was built
\* after the client had received a dataset graph from an earlier call
C27_Witness ==
    /\ last.op = "get_dataset_image" /\ last.status = "ok"
    /\ last.name = "agricultural_drought" /\ last.path = "regional.yaml"
    /\ last.graph.f = "ImageCollection.mosaic"
    /\ \E doc \in held : IsRaster(doc)

\* ------------------------------------------------------------ type closure
RasterTools ==
    {"get_dataset_image", "mask_image", "filter_image_by_threshold",
     "union_binary_images", "intersect_binary_images"}
VectorTools == {"get_zone_of_area"} \cup VectorOps

\* C28 as claimed: when every document argument is the output of an earlier
\* call, what a raster tool returns deserializes to a raster and what a
\* vector tool returns does not.
C28_AsClaimed ==
    Returned =>
        /\ last.op \in RasterTools => IsRaster(last.out)
        /\ last.op \in VectorTools => ~IsRaster(last.out)

\* C28 as amended: when every document argument is the output of an earlier
\* call, the outputs of dataset-graph, mask, threshold and union-binary
\* deserialize to a raster and those of zone, intersect-vectors and
\* merge-vectors do not; intersect-binary returns a raster for two or more
\* documents, and for a single document that document unchanged, raster or
\* vector. A vector handler raises the type error exactly when one of its
\* documents is a raster, and returns when none is.
C28_TypeClosure ==
    /\ Returned =>
          /\ last.op \in RasterTools \ {"intersect_binary_images"} => IsRaster(last.out)
          /\ last.op \in VectorTools => ~IsRaster(last.out)
          /\ last.op = "intersect_binary_images" =>
                IF Len(last.ins) = 1 THEN last.out = last.ins[1] ELSE IsRaster(last.out)
    /\ (last.op = "intersect_binary_images" /\ Len(last.ins) = 1) => last.status = "ok"
    /\ (last.op \in VectorOps /\ Len(last.ins) >= 1) =>
          /\ last.status = "TypeError" <=> Rasters # {}
          /\ last.status = "ok" <=> Rasters = {}

\* intersect-binary was given the one vector the client holds, next to a
\* raster, and returned it
C28_Witness ==
    /\ last.op = "intersect_binary_images"
    /\ Len(last.ins) = 1
    /\ ~IsRaster(last.ins[1])
    /\ \E doc \in held : IsRaster(doc)
    /\ last.status = "ok"
    /\ last.out = last.ins[1]

\* ------------------------------------------------------ type discrimination
RasterHandlers ==
    {"mask_image", "filter_image_by_threshold", "union_binary_images",
     "intersect_binary_images", "reduce_image"}
TypeOfInput(i) == TypeOf(Deserialize(last.ins[i]))

UpperCaseKeys(path) == {key \in DOMAIN Registry(path) : Lower(key) # key}
\* a key is shadowed when a key written after it differs from it in case only
Shadowed(path, key) ==
    \E i, j \in DOMAIN KeysInOrder(path) :
        /\ KeysInOrder(path)[i] = key /\ j > i
        /\ Lower(KeysInOrder(path)[j]) = Lower(key)
\* no node of the returned graph names the asset of key
NotReturned(key) ==
    \A X \in Subs(last.graph) :
        X # Str(BASE_ASSETS_PATH \o "/" \o Registry(last.path)[key].asset_id)

\* C30 as claimed: the get-dataset tool succeeds exactly when the
\* lower-cased requested name is a registry key, and never returns a
\* dataset whose key holds an upper-case character.
C30_AsClaimed ==
    (/\ last.op = "get_dataset_image" /\ last.level = "tool"
     /\ FileExists(last.path)) =>
        /\ last.status = "ok" <=> Lower(last.name) \in DOMAIN Registry(last.path)
        /\ \A key \in UpperCaseKeys(last.path) : NotReturned(key)

\* C30, what the code does: the get-dataset tool lower-cases the requested name and
\* fails with a ValueError unless exactly that is a registry key; it then
\* succeeds, with that key's dataset, unless a key written later in the file
\* differs from it in case only, in which case the handler's lookup fails
\* with a KeyError; a dataset whose key holds an upper-case character is
\* never returned.
C30_NameCase ==
    (/\ last.op = "get_dataset_image" /\ last.level = "tool"
     /\ FileExists(last.path)) =>
        LET name == Lower(last.name)
        IN  /\ name \notin DOMAIN Registry(last.path) =>
                  last.status = "ValueError" /\ last.steps = <<"validate">>
            /\ (name \in DOMAIN Registry(last.path) /\ Shadowed(last.path, name)) =>
                  last.status = "KeyError" /\ last.steps = <<"validate", "handler">>
            /\ (name \in DOMAIN Registry(last.path) /\ ~Shadowed(last.path, name)) =>
                  /\ last.status = "ok"
                  /\ ~NotReturned(name)
            /\ \A key \in UpperCaseKeys(last.path) : NotReturned(key)

\* the tool was asked for Flood_Dataset, a key of the registry as written:
\* the lower-cased name passed the validation and the handler did not find it
C30_Witness ==
    /\ last.op = "get_dataset_image" /\ last.level = "tool"
    /\ last.name = "Flood_Dataset" /\ last.path = "regional.yaml"
    /\ "Flood_Dataset" \in UpperCaseKeys(last.path)
    /\ last.status = "KeyError"
    /\ last.built = <<>>

====
